---- MODULE Spec2Model ----
(***************************************************************************)
(* A model of the BARNI smooth-peak-analysis core (LLNL/barni):            *)
(* EnergyScale, Spectrum, GaussianSensorModel, smooth, solve and the       *)
(* SmoothPeakAnalysis pipeline.  Real numbers are exact rationals <<n, d>> *)
(* with d > 0 in lowest terms.                                             *)
(***************************************************************************)
EXTENDS Integers, Sequences, FiniteSets, TLC

VARIABLES es, counts, sensor, op, args, ret, chan, spa, an

vars == <<es, counts, sensor, op, args, ret, chan, spa, an>>

(***************************************************************************)
(* Bounds of the model.                                                    *)
(***************************************************************************)
MaxBins == 3
MaxEdge == 4
MaxCount == 2
EnergyDen == 2
ChanDen == 2

(***************************************************************************)
(* Let(v, F) is F(v) with v evaluated once, before F: the statements of a  *)
(* loop body run in order on values, not on unevaluated expressions.       *)
(***************************************************************************)
Let(v, F(_)) == CHOOSE r \in {F(x) : x \in {v}} : TRUE

(***************************************************************************)
(* Exact rational arithmetic.                                              *)
(***************************************************************************)
Abs(x) == IF x < 0 THEN -x ELSE x

RECURSIVE GCD(_, _)
GCD(a, b) == IF b = 0 THEN a ELSE GCD(b, a % b)

\* the common factor taken out of a pair (1 when both are 0)
Common(a, b) == IF a = 0 /\ b = 0 THEN 1 ELSE GCD(Abs(a), Abs(b))

\* n / d in lowest terms; a float division by zero is <<1, 0>> (inf),
\* <<-1, 0>> (-inf) or <<0, 0>> (nan)
Rat(n, d) ==
    IF d = 1 THEN <<n, 1>>
    ELSE LET g == Common(n, d)
             s == IF d < 0 THEN -1 ELSE 1
         IN  <<(s * n) \div g, (s * d) \div g>>

R(n) == <<n, 1>>
RNeg(x) == <<-x[1], x[2]>>
RInv(x) == IF x[1] < 0 THEN <<-x[2], -x[1]>> ELSE <<x[2], x[1]>>
\* sums and products cancel common factors before multiplying
RAdd(x, y) ==
    IF x[2] = y[2] THEN Rat(x[1] + y[1], x[2])
    ELSE LET g == Common(x[2], y[2])
         IN  Rat(x[1] * (y[2] \div g) + y[1] * (x[2] \div g),
                 (x[2] \div g) * y[2])
RSub(x, y) == RAdd(x, RNeg(y))
RMul(x, y) ==
    IF x[2] = 1 /\ y[2] = 1 THEN <<x[1] * y[1], 1>>
    ELSE LET g1 == Common(x[1], y[2])
             g2 == Common(y[1], x[2])
         IN  Rat((x[1] \div g1) * (y[1] \div g2),
                 (x[2] \div g2) * (y[2] \div g1))
RDiv(x, y) == RMul(x, RInv(y))
RLt(x, y) ==
    IF x[2] = y[2] THEN x[1] < y[1]
    ELSE LET g == Common(x[2], y[2])
         IN  x[1] * (y[2] \div g) < y[1] * (x[2] \div g)
RLe(x, y) ==
    IF x[2] = y[2] THEN x[1] <= y[1]
    ELSE LET g == Common(x[2], y[2])
         IN  x[1] * (y[2] \div g) <= y[1] * (x[2] \div g)
RMax(x, y) == IF RLt(x, y) THEN y ELSE x
RMin(x, y) == IF RLt(y, x) THEN y ELSE x
RFloor(x) == x[1] \div x[2]
\* Python's int(): truncation toward zero
RInt(x) == IF x[1] < 0 THEN -((-x[1]) \div x[2]) ELSE x[1] \div x[2]

RECURSIVE RSum(_)
RSum(s) ==
    IF s = <<>> THEN R(0)
    ELSE Let(RSum(Tail(s)), LAMBDA rest : RAdd(Head(s), rest))

(***************************************************************************)
(* Python sequence indexing and slicing (0-based, negative wraps once).    *)
(***************************************************************************)
InRange(s, i) == -Len(s) <= i /\ i < Len(s)
PyIndex(s, i) == IF i < 0 THEN s[Len(s) + i + 1] ELSE s[i + 1]
PyClamp(s, i) ==
    IF i < 0 THEN (IF Len(s) + i < 0 THEN 0 ELSE Len(s) + i)
    ELSE (IF i > Len(s) THEN Len(s) ELSE i)
PySlice(s, a, b) ==
    LET lo == PyClamp(s, a)
        hi == PyClamp(s, b)
    IN  IF lo >= hi THEN <<>> ELSE [k \in 1..(hi - lo) |-> s[lo + k]]

(***************************************************************************)
(* EnergyScale (_bins.py).  edges is a sequence of rationals.              *)
(***************************************************************************)
RECURSIVE Bisect(_, _, _, _)
Bisect(a, x, lo, hi) ==
    IF lo < hi
    THEN LET mid == (lo + hi) \div 2
         IN  IF RLt(a[mid + 1], x) THEN Bisect(a, x, mid + 1, hi)
             ELSE Bisect(a, x, lo, mid)
    ELSE lo

BisectLeft(a, x) == Bisect(a, x, 0, Len(a))

findBin(edges, energy) == BisectLeft(edges, energy) - 1

\* findEnergy(i): j = int(i); f = i - j; edges[j]*(1-f) + f*edges[j+1]
findEnergy(edges, i) ==
    LET j == RInt(i)
        f == RSub(i, R(j))
    IN  RAdd(RMul(PyIndex(edges, j), RSub(R(1), f)),
             RMul(f, PyIndex(edges, j + 1)))

NBins(edges) == Len(edges) - 1

(***************************************************************************)
(* Spectrum.getIntegral (_spectrum.py).  The result is a record: either a  *)
(* value or the exception raised by an index outside the array.            *)
(***************************************************************************)
Value(v) == [err |-> "", val |-> v]
Raise(e) == [err |-> e, val |-> R(0)]

getIntegral(cnt, edges, e1, e2) ==
    LET c3 == findBin(edges, e1)
        c4 == findBin(edges, e2)
    IN  IF ~(InRange(edges, c3) /\ InRange(edges, c3 + 1)
             /\ InRange(edges, c4) /\ InRange(edges, c4 + 1)
             /\ InRange(cnt, c3) /\ InRange(cnt, c4))
        THEN Raise("IndexError")
        ELSE LET f1 == RDiv(RSub(e1, PyIndex(edges, c3)),
                            RSub(PyIndex(edges, c3 + 1), PyIndex(edges, c3)))
                 f2 == RDiv(RSub(e2, PyIndex(edges, c4)),
                            RSub(PyIndex(edges, c4 + 1), PyIndex(edges, c4)))
             IN  Value(RSub(RSub(RSum(PySlice(cnt, c3, c4 + 1)),
                                 RMul(PyIndex(cnt, c3), f1)),
                            RMul(PyIndex(cnt, c4), f2)))

(***************************************************************************)
(* GaussianSensorModel (_sensor.py).  x ** p is modelled for whole powers  *)
(* p, so the sensors of the model have wideningPower = 1.                  *)
(***************************************************************************)
RECURSIVE RPowN(_, _)
RPowN(x, n) == IF n = 0 THEN R(1) ELSE RMul(x, RPowN(x, n - 1))
RPow(x, p) == RPowN(x, p[1])

FwhmPerSigma == Rat(2355, 1000)

\* __init__ and _updateCoefficients
GaussianSensorModel(resolution, resolutionEnergy, electronicNoise, wideningPower) ==
    LET fwhmRef_kev == RMul(resolution, resolutionEnergy)
        fwhm0_kev == electronicNoise
        C == wideningPower
        A == RPow(RDiv(fwhm0_kev, FwhmPerSigma), RDiv(R(1), C))
        B == RDiv(RSub(RPow(RDiv(fwhmRef_kev, FwhmPerSigma), RDiv(R(1), C)), A),
                  resolutionEnergy)
    IN  [resolution |-> resolution, resolutionEnergy |-> resolutionEnergy,
         electronicNoise |-> electronicNoise, wideningPower |-> wideningPower,
         A |-> A, B |-> B, C |-> C]

\* np.any(energy): some element is non-zero; a bool compares as 0 or 1
NpAny(energy) == \E k \in 1..Len(energy) : energy[k] # R(0)
BoolAsInt(b) == IF b THEN 1 ELSE 0

\* getResolution on an array of energies (a scalar is an array of one)
getResolution(s, energy) ==
    IF BoolAsInt(NpAny(energy)) < 0
    THEN [err |-> "Exception", val |-> <<>>]
    ELSE [err |-> "",
          val |-> [k \in 1..Len(energy) |->
                      Let(RMul(s.B, energy[k]), LAMBDA slope :
                        Let(RAdd(s.A, slope), LAMBDA base : RPow(base, s.C)))]]

\* getResolution of one non-negative energy, as the pipeline calls it
Sigma(s, e) == getResolution(s, <<e>>).val[1]


(***************************************************************************)
(* smooth (_smoothing.py).  A is held in the banded form solve_banded      *)
(* takes: A[1][j] = a[j-1,j], A[2][j] = a[j,j], A[3][j] = a[j+1,j]         *)
(* (1-based rows here, 0-based columns j as in the code, stored at j+1).   *)
(***************************************************************************)
Zeros(n) == [k \in 1..n |-> R(0)]
Zeros3(n) == <<Zeros(n), Zeros(n), Zeros(n)>>

\* lmbda is a float ([isFloat |-> TRUE, c |-> value]) or a callable
\* ([isFloat |-> FALSE, f |-> values by channel])
Const(c) == [isFloat |-> TRUE, c |-> c, f |-> <<>>]
Lmbda(lmbda, i) == IF lmbda.isFloat THEN lmbda.c ELSE lmbda.f[i + 1]

RECURSIVE SmoothLoop(_, _, _, _, _)
SmoothLoop(A, i, n, c2, lmbda) ==
    IF i >= n - 1
    THEN [A EXCEPT ![2][n] = RAdd(R(1), c2)]
    ELSE Let(Lmbda(lmbda, i), LAMBDA c :
           Let([A EXCEPT ![2][i + 1] = RAdd(RAdd(R(1), c), c2),
                         ![1][i + 2] = RNeg(c),
                         ![3][i + 1] = RNeg(c)],
               LAMBDA A1 : SmoothLoop(A1, i + 1, n, c, lmbda)))

\* the last diagonal entry written as 1 - c2, as solve() writes it
SmoothBandMinusLast(n, lmbda) ==
    LET A == SmoothLoop(Zeros3(n), 0, n, R(0), lmbda)
    IN  [A EXCEPT ![2][n] = RSub(R(2), A[2][n])]

SmoothBand(n, lmbda) == SmoothLoop(Zeros3(n), 0, n, R(0), lmbda)

\* scipy.linalg.solve_banded((1, 1), ab, d): the solution x of the
\* tridiagonal system, by forward elimination and back substitution;
\* a zero pivot is a singular matrix.
BandUp(ab, i) == ab[1][i + 2]
BandDiag(ab, i) == ab[2][i + 1]
BandLow(ab, i) == ab[3][i]

RECURSIVE Forward(_, _, _, _, _)
\* cp, dp: the reduced upper diagonal and right-hand side of rows 0..i-1
Forward(ab, d, i, cp, dp) ==
    IF i = Len(d) THEN [ok |-> TRUE, cp |-> cp, dp |-> dp]
    ELSE Let(IF i = 0 THEN BandDiag(ab, 0)
             ELSE RSub(BandDiag(ab, i), RMul(BandLow(ab, i), cp[i])),
           LAMBDA denom :
             IF denom = R(0) THEN [ok |-> FALSE, cp |-> cp, dp |-> dp]
             ELSE LET num == IF i = 0 THEN d[1]
                             ELSE RSub(d[i + 1], RMul(BandLow(ab, i), dp[i]))
                      up == IF i = Len(d) - 1 THEN R(0) ELSE BandUp(ab, i)
                  IN  Let(<<Append(cp, RDiv(up, denom)), Append(dp, RDiv(num, denom))>>,
                          LAMBDA r : Forward(ab, d, i + 1, r[1], r[2])))

RECURSIVE Backward(_, _, _, _)
Backward(cp, dp, i, x) ==
    IF i = 0 THEN x
    ELSE Let(<<IF i = Len(dp) THEN dp[i] ELSE RSub(dp[i], RMul(cp[i], x[1]))>> \o x,
             LAMBDA x1 : Backward(cp, dp, i - 1, x1))

solve_banded(ab, d) ==
    Let(<<ab, d>>, LAMBDA a :
      Let(Forward(a[1], a[2], 0, <<>>, <<>>), LAMBDA fw :
        IF fw.ok THEN [err |-> "", val |-> Backward(fw.cp, fw.dp, Len(a[2]), <<>>)]
        ELSE [err |-> "LinAlgError", val |-> <<>>]))

smooth(signal, lmbda) == solve_banded(SmoothBand(Len(signal), lmbda), signal)

(***************************************************************************)
(* solve (_spa.py): the tridiagonal block A11 of the joint system, held as *)
(* A11[1] = upper (a[i,i+1] at i), A11[2] = main, A11[3] = lower           *)
(* (a[i+1,i] at i+1).                                                      *)
(***************************************************************************)
RECURSIVE TridiagLoop(_, _, _, _, _, _)
TridiagLoop(A11, i, n1, c2, mu, lld) ==
    IF i >= n1 - 1
    THEN [A11 EXCEPT ![2][n1] = RSub(R(1), c2)]
    ELSE Let(IF i <= lld THEN R(0) ELSE RMul(R(i), mu), LAMBDA c :
           Let([A11 EXCEPT ![2][i + 1] = RAdd(RAdd(R(1), c), c2),
                           ![1][i + 1] = RNeg(c),
                           ![3][i + 2] = RNeg(c)],
               LAMBDA A1 : TridiagLoop(A1, i + 1, n1, c, mu, lld)))

TridiagBlock(n1, mu, lld) == TridiagLoop(Zeros3(n1), 0, n1, R(0), mu, lld)

(***************************************************************************)
(* Peaks (_architecture.py) and the peak proposer getInitialPeaks          *)
(* (_spa.py).  A peak carries the attributes the pipeline attaches to it   *)
(* (channel, response).                                                    *)
(***************************************************************************)
Peak(energy, intensity, baseline, width) ==
    [energy |-> energy, intensity |-> intensity, baseline |-> baseline,
     width |-> width, channel |-> R(0), response |-> <<>>]

Half == Rat(1, 2)
Twentieth == Rat(5, 100)
MergeWindow == Rat(235, 100)

\* sig > 1 for sig = current / sqrt(max(b, 1)), without the square root
Significant(current, b) ==
    RLt(R(0), current) /\ RLt(RMax(b, R(1)), RMul(current, current))

\* the test of the scan without the rising state: every falling step
TaggedOnFall(rising, current, nxt) == RLt(nxt, current)
\* tag maxima: rising and current > nxt
Tagged(rising, current, nxt) == rising /\ RLt(nxt, current)

\* one pass of the loop over i of the derivative scan: the locals after it
ScanBody(u, b, edges, i, current, prev, rising, potential) ==
    Let(RSub(u[i + 1], b[i + 1]), LAMBDA nxt :
      IF current = nxt
      THEN [err |-> "", current |-> current, prev |-> current, rising |-> rising,
            potential |-> potential]
      ELSE
        LET tag == Tagged(rising, current, nxt)
            gate == tag /\ Significant(current, PyIndex(b, i - 1))
            p1 == RMax(RMul(RAdd(nxt, current), Half), R(0))
            p2 == RMax(RMul(RAdd(prev, current), Half), R(0))
            rising1 == IF tag THEN FALSE ELSE rising
            rising2 == IF ~rising1 /\ RLt(current, nxt) THEN TRUE ELSE rising1
        IN  IF gate /\ RAdd(p2, p1) = R(0)
            THEN [err |-> "ValueError", current |-> current, prev |-> prev,
                  rising |-> rising1, potential |-> potential]
            ELSE IF gate
            THEN LET f == RMul(Half, RDiv(RSub(p2, p1), RAdd(p2, p1)))
                     channel == RAdd(R(i - 1), f)
                     out == [Peak(findEnergy(edges, channel), current, R(0), R(0))
                                EXCEPT !.channel = channel]
                 IN  [err |-> "", current |-> nxt, prev |-> current, rising |-> rising2,
                      potential |-> Append(potential, out)]
            ELSE [err |-> "", current |-> nxt, prev |-> current, rising |-> rising2,
                  potential |-> potential])

RECURSIVE ScanLoop(_, _, _, _, _, _, _, _)
\* the loop over i of the derivative scan
ScanLoop(u, b, edges, i, current, prev, rising, potential) ==
    IF i >= Len(u) THEN [err |-> "", val |-> potential]
    ELSE Let(ScanBody(u, b, edges, i, current, prev, rising, potential), LAMBDA r :
           IF r.err # "" THEN [err |-> r.err, val |-> r.potential]
           ELSE ScanLoop(u, b, edges, i + 1, r.current, r.prev, r.rising, r.potential))

\* the end of the merge window of a peak at energy e0
WindowEnd(s, e0) ==
    Let(Sigma(s, e0), LAMBDA sig :
      Let(RMul(sig, MergeWindow), LAMBDA width : RAdd(e0, width)))

\* the body of the inner while loop: the running peak p1 merged with
\* potential[i + 1]
MergeOnce(potential, i, p1) ==
    Let(PyIndex(potential, i + 1), LAMBDA p2 :
      Let(RAdd(p1.intensity, p2.intensity), LAMBDA total :
        Let(RDiv(p1.intensity, total), LAMBDA f :
          Let(RSub(R(1), f), LAMBDA g :
            Let(<<RMul(f, p1.channel), RMul(g, p2.channel),
                  RMul(f, p1.energy), RMul(g, p2.energy),
                  RMul(f, p1.intensity), RMul(g, p2.intensity)>>, LAMBDA t :
              Let(<<RAdd(t[1], t[2]), RAdd(t[3], t[4]), RAdd(t[5], t[6])>>,
                  LAMBDA u :
                    [Peak(u[2], u[3], R(0), R(0)) EXCEPT !.channel = u[1]]))))))

RECURSIVE MergeInner(_, _, _, _, _, _)
\* the inner while loop: p1 is the running merged peak, e the window end
MergeInner(potential, s, i, j, p1, e) ==
    IF j < Len(potential) /\ RLt(PyIndex(potential, j).energy, e)
    THEN Let(MergeOnce(potential, i, p1), LAMBDA merged :
           Let(WindowEnd(s, merged.energy),
               LAMBDA e1 : MergeInner(potential, s, i, j + 1, merged, e1)))
    ELSE [p1 |-> p1, j |-> j]

RECURSIVE MergeLoop(_, _, _, _, _)
MergeLoop(potential, s, lld, i, peaks) ==
    IF i >= Len(potential) THEN peaks
    ELSE LET p1 == PyIndex(potential, i)
             e0 == p1.energy
         IN  IF RLt(e0, lld)
             THEN MergeLoop(potential, s, lld, i + 1, peaks)
             ELSE Let(MergeInner(potential, s, i, i + 1, p1, WindowEnd(s, e0)),
                      LAMBDA m :
                        Let(Append(peaks, m.p1),
                            LAMBDA peaks1 : MergeLoop(potential, s, lld, m.j, peaks1)))

\* getInitialPeaks(y, b, es, sensor, lld, mu): [err, val (the peaks),
\* potential (the candidates before merging), scanned (the local u)]
getInitialPeaks(y, b, edges, s, lld, mu) ==
    Let(smooth(y, Const(RMul(mu, Twentieth))), LAMBDA sm :
      IF sm.err # ""
      THEN [err |-> sm.err, val |-> <<>>, potential |-> <<>>, scanned |-> <<>>]
      ELSE Let(ScanLoop(sm.val, b, edges, 0, RSub(sm.val[1], b[1]),
                        RSub(sm.val[1], b[1]), FALSE, <<>>),
               LAMBDA sc :
                 IF sc.err # ""
                 THEN [err |-> sc.err, val |-> <<>>, potential |-> sc.val,
                       scanned |-> sm.val]
                 ELSE [err |-> "", val |-> MergeLoop(sc.val, s, lld, 0, <<>>),
                       potential |-> sc.val, scanned |-> sm.val]))

(***************************************************************************)
(* computeBaseline, addNeighborPeaks, responsePeaks, combineNeighborPeaks  *)
(* (_spa.py) and GaussianSensorModel.getResponse (_sensor.py).             *)
(***************************************************************************)
Inf == <<1, 0>>
RAbs(x) == IF x[1] < 0 THEN RNeg(x) ELSE x
VAdd(x, y) == [k \in 1..Len(x) |-> RAdd(x[k], y[k])]
VSub(x, y) == [k \in 1..Len(x) |-> RSub(x[k], y[k])]
VMax0(x) == [k \in 1..Len(x) |-> RMax(x[k], R(0))]
VMin0(x) == [k \in 1..Len(x) |-> RMin(x[k], R(0))]

RECURSIVE BaselineLoop(_, _, _, _)
BaselineLoop(u, x, mu, i) ==
    IF i >= 2 THEN x
    ELSE Let(<<RMul(mu, Half), VMax0(x)>>, LAMBDA m :
           Let(VAdd(smooth(VMin0(VSub(u, m[2])), Const(m[1])).val, m[2]),
               LAMBDA x1 : BaselineLoop(u, x1, m[1], i + 1)))

\* computeBaseline(y, mu): <<baseline, lightly smoothed spectrum>>
computeBaseline(y, mu) ==
    Let(smooth(y, Const(RMul(mu, Twentieth))).val, LAMBDA u :
      Let(smooth(u, Const(mu)).val, LAMBDA x :
        <<VMax0(BaselineLoop(u, x, mu, 0)), u>>))

\* norm.cdf(x, loc, scale): the normal distribution function is replaced by
\* the distribution function of the uniform law on [loc - 2 scale,
\* loc + 2 scale]: non-decreasing from 0 to 1 and symmetric about loc
NormCdf(x, loc, scale) ==
    Let(RDiv(RSub(x, loc), scale), LAMBDA z :
      IF RLe(z, R(-2)) THEN R(0)
      ELSE IF RLe(R(2), z) THEN R(1)
      ELSE RDiv(RAdd(z, R(2)), R(4)))

\* getResponse(energy, intensity, binEdges)
getResponse(s, energy, intensity, binEdges) ==
    Let(Sigma(s, energy), LAMBDA scale :
      Let([i \in 1..Len(binEdges) |-> NormCdf(binEdges[i], energy, scale)],
        LAMBDA cdf :
          [i \in 1..(Len(binEdges) - 1) |->
              RMul(intensity, RSub(cdf[i + 1], cdf[i]))]))

responsePeaks(peaks, s, edges) ==
    [i \in 1..Len(peaks) |->
        [peaks[i] EXCEPT !.response = getResponse(s, peaks[i].energy, R(1), edges)]]

addNeighborPeaks(peaks0, s) ==
    [i1 \in 1..(Len(peaks0) * 3) |->
        LET i == i1 - 1
            p == PyIndex(peaks0, i \div 3)
            k == i % 3
            w == IF k = 0 THEN RNeg(Sigma(s, p.energy))
                 ELSE IF k = 1 THEN R(0)
                 ELSE Sigma(s, p.energy)
        IN  Peak(RAdd(p.energy, w), p.intensity, p.baseline, R(0))]

RECURSIVE VMaxOf(_)
VMaxOf(x) == IF Len(x) = 1 THEN x[1] ELSE RMax(x[1], VMaxOf(Tail(x)))

\* sqrt(2 pi) = 2.5066..., taken as 5/2
SqrtTwoPi == Rat(5, 2)

\* width = sqrt(1 / (2 pi) * (isum / a) ** 2); a division by a = 0 is inf
CombinedWidth(isum, a) ==
    IF a = R(0) THEN Inf ELSE RDiv(RAbs(RDiv(isum, a)), SqrtTwoPi)

\* a group emitted whatever its total amplitude
EmitsAlways(isum) == RLe(R(0), isum)

\* whether a group's peak is emitted
Emits(isum) == RLt(R(0), isum)

\* a peak put out after the second peak of a group as well
GroupEndEarly(k) == k >= 1

\* if k == (reps - 1)
GroupEnd(k) == k = 2

RECURSIVE CombineLoop(_, _, _, _, _, _, _)
CombineLoop(peaks, edge_widths, i, ergw, isum, rsum, p2) ==
    IF i >= Len(peaks) THEN p2
    ELSE LET p == PyIndex(peaks, i)
             k == i % 3
             ergw0 == IF k = 0 THEN R(0) ELSE ergw
             isum0 == IF k = 0 THEN R(0) ELSE isum
             rsum0 == IF k = 0 THEN Zeros(Len(edge_widths)) ELSE rsum
         IN  Let(<<RAdd(ergw0, RMul(p.energy, p.intensity)),
                   RAdd(isum0, p.intensity),
                   [b \in 1..Len(edge_widths) |->
                       RAdd(rsum0[b], RMul(p.intensity, p.response[b]))]>>,
                 LAMBDA t :
                   IF GroupEnd(k) /\ Emits(t[2])
                   THEN Let(<<RDiv(t[1], t[2]),
                              VMaxOf([b \in 1..Len(edge_widths) |->
                                         RDiv(t[3][b], edge_widths[b])])>>,
                            LAMBDA ea :
                              Let(Append(p2, Peak(ea[1], t[2], R(0),
                                                  CombinedWidth(t[2], ea[2]))),
                                  LAMBDA q : CombineLoop(peaks, edge_widths, i + 1,
                                                         t[1], t[2], t[3], q)))
                   ELSE CombineLoop(peaks, edge_widths, i + 1, t[1], t[2], t[3], p2))

combineNeighborPeaks(peaks, edges) ==
    IF Len(peaks) % 3 > 0 THEN [err |-> "RuntimeError", val |-> <<>>]
    ELSE [err |-> "",
          val |-> CombineLoop(peaks, [b \in 1..(Len(edges) - 1) |-> RSub(edges[b + 1], edges[b])],
                              0, R(0), R(0), <<>>, <<>>)]

\* solve(): the peaks it returns for the amplitudes the solver found
SolvedPeaks(peaks, s, intensity) ==
    [i \in 1..Len(peaks) |->
        Peak(peaks[i].energy, intensity[i], R(0), Sigma(s, peaks[i].energy))]

RECURSIVE FillBaselines(_, _, _, _)
\* peak.baseline = continuum.getIntegral(energy - width, energy + width)
FillBaselines(peaks, continuum, edges, i) ==
    IF i > Len(peaks) THEN [err |-> "", val |-> peaks]
    ELSE Let(getIntegral(continuum, edges, RSub(peaks[i].energy, peaks[i].width),
                         RAdd(peaks[i].energy, peaks[i].width)),
             LAMBDA g :
               IF g.err # "" THEN [err |-> g.err, val |-> peaks]
               ELSE Let([peaks EXCEPT ![i].baseline = g.val],
                        LAMBDA peaks1 : FillBaselines(peaks1, continuum, edges, i + 1)))

(***************************************************************************)
(* Inputs.                                                                 *)
(***************************************************************************)
RECURSIVE IncreasingSeqs(_, _)
\* all strictly increasing integer sequences of length n with values > lo
IncreasingSeqs(n, lo) ==
    IF n = 0 THEN {<<>>}
    ELSE UNION {{<<R(v)>> \o t : t \in IncreasingSeqs(n - 1, v)} : v \in (lo + 1)..MaxEdge}

EdgeSets == UNION {IncreasingSeqs(n + 1, -1) : n \in 1..MaxBins}
CountSeqs(n) == [1..n -> {R(c) : c \in 0..MaxCount}]
Energies == {Rat(k, EnergyDen) : k \in (-EnergyDen)..((MaxEdge + 1) * EnergyDen)}
\* sensors with sigma(e) = A + B e for A in {0, 1}, B in {1/10, 1/3}
Sensors ==
    {GaussianSensorModel(RMul(FwhmPerSigma, RAdd(b, RDiv(a, R(10)))), R(10),
                         RMul(FwhmPerSigma, a), R(1)) :
        a \in {R(0), R(1)}, b \in {Rat(1, 10), Rat(1, 3)}}
NoSensor == GaussianSensorModel(FwhmPerSigma, R(1), R(0), R(1))
NoAnalysis == [startEnergy |-> R(35), endEnergy |-> R(3000), smoothingFactor |-> R(3)]
NotRunning == [pc |-> "idle"]
Channels(edges) == {Rat(k, ChanDen) : k \in 0..(NBins(edges) * ChanDen - 1)}

(***************************************************************************)
(* SpecScale: EnergyScale and Spectrum queries on a constructed spectrum.  *)
(* The queries assign no field of the objects, so a behaviour constructs a *)
(* spectrum and makes one query (or findEnergy followed by findBin).       *)
(***************************************************************************)
InitScale ==
    /\ es \in EdgeSets
    /\ counts \in CountSeqs(NBins(es))
    /\ sensor = NoSensor
    /\ op = "init"
    /\ args = <<>>
    /\ ret = Value(R(0))
    /\ chan = <<>>
    /\ spa = NoAnalysis
    /\ an = NotRunning

\* findBin on an arbitrary energy
FindBin ==
    \E e \in Energies :
        /\ op = "init"
        /\ op' = "findBin"
        /\ args' = <<e>>
        /\ ret' = Value(R(findBin(es, e)))
        /\ chan' = <<>>
        /\ UNCHANGED <<es, counts, sensor, spa, an>>

\* findEnergy on a channel in [0, N)
FindEnergy ==
    \E c \in Channels(es) :
        /\ op = "init"
        /\ op' = "findEnergy"
        /\ args' = <<c>>
        /\ ret' = Value(findEnergy(es, c))
        /\ chan' = <<c>>
        /\ UNCHANGED <<es, counts, sensor, spa, an>>

\* findBin applied to the energy the last findEnergy returned
FindBinOfEnergy ==
    /\ op = "findEnergy"
    /\ op' = "findBin"
    /\ args' = <<ret.val>>
    /\ ret' = Value(R(findBin(es, ret.val)))
    /\ chan' = chan
    /\ UNCHANGED <<es, counts, sensor, spa, an>>

GetIntegral ==
    \E e1, e2 \in Energies :
        /\ op = "init"
        /\ RLe(e1, e2)
        /\ op' = "getIntegral"
        /\ args' = <<e1, e2>>
        /\ ret' = getIntegral(counts, es, e1, e2)
        /\ chan' = <<>>
        /\ UNCHANGED <<es, counts, sensor, spa, an>>

NextScale == FindBin \/ FindEnergy \/ FindBinOfEnergy \/ GetIntegral

SpecScale == InitScale /\ [][NextScale]_vars

(***************************************************************************)
(* Claims about EnergyScale and Spectrum (checked under SpecScale).        *)
(***************************************************************************)
InScale(e) == RLe(es[1], e) /\ RLt(e, es[Len(es)])
\* the bin i (0-based) holds e: edges[i] <= e < edges[i+1]
Holds(i, e) == i \in 0..(NBins(es) - 1) /\ RLe(es[i + 1], e) /\ RLt(e, es[i + 2])

\* C1: for every energy e with edges[0] <= e < edges[N], findBin(e) is the
\* index i with edges[i] <= e < edges[i+1], also when e equals an edge.
C1_FindBinContract ==
    (op = "findBin" /\ InScale(args[1])) => Holds(ret.val[1], args[1])

\* C2: findBin saturates: it returns 0 for e < edges[0] and N-1 for
\* e >= edges[N], so the index is always in 0..N-1.
C2_FindBinSaturates ==
    op = "findBin" =>
        /\ RLt(args[1], es[1]) => ret.val = R(0)
        /\ RLe(es[Len(es)], args[1]) => ret.val = R(NBins(es) - 1)
        /\ ret.val[1] \in 0..(NBins(es) - 1)

\* C3: round trip: for every channel c in [0, N), integer or fractional,
\* findBin(findEnergy(c)) = floor(c).
C3_RoundTrip ==
    (op = "findBin" /\ chan # <<>>) => ret.val = R(RFloor(chan[1]))

\* the counts between e1 and e2: each bin in proportion to the part of its
\* width inside [e1, e2]
Overlap(i, e1, e2) ==
    LET lo == RMax(e1, es[i])
        hi == RMin(e2, es[i + 1])
    IN  IF RLt(lo, hi) THEN RDiv(RSub(hi, lo), RSub(es[i + 1], es[i])) ELSE R(0)

CountsBetween(e1, e2) ==
    RSum([i \in 1..NBins(es) |-> RMul(counts[i], Overlap(i, e1, e2))])

\* C4: getIntegral(e1, e2) with e1 <= e2 returns the counts between e1 and
\* e2, full bins fully and the end bins in proportion; a range covering the
\* whole scale (bounds outside it included) returns the total counts.
C4_IntegralIsCountsBetween ==
    op = "getIntegral" =>
        /\ ret.err = ""
        /\ ret.val = CountsBetween(args[1], args[2])

(***************************************************************************)
(* SpecSensor: a sensor model is constructed and asked for its resolution  *)
(* at one energy or at an array of energies.                               *)
(***************************************************************************)
MaxArray == 2
EnergyArrays == UNION {[1..n -> Energies] : n \in 1..MaxArray}

InitSensor ==
    /\ es = <<R(0), R(1)>>
    /\ counts = <<R(0)>>
    /\ sensor \in Sensors
    /\ op = "init"
    /\ args = <<>>
    /\ ret = [err |-> "", val |-> <<>>]
    /\ chan = <<>>
    /\ spa = NoAnalysis
    /\ an = NotRunning

GetResolution ==
    \E e \in EnergyArrays :
        /\ op = "init"
        /\ op' = "getResolution"
        /\ args' = e
        /\ ret' = getResolution(sensor, e)
        /\ UNCHANGED <<es, counts, sensor, chan, spa, an>>

NextSensor == GetResolution

SpecSensor == InitSensor /\ [][NextSensor]_vars

\* C5: resolution(e) fails with an error whenever e < 0, for a scalar energy
\* and for an array holding a negative energy; it returns a width only for
\* non-negative energies.
C5_NegativeEnergyFails ==
    (op = "getResolution" /\ \E k \in 1..Len(args) : RLt(args[k], R(0)))
        => ret.err # ""

(***************************************************************************)
(* SpecTridiag: solve() assembles the tridiagonal block for a spectrum, a  *)
(* smoothing scale mu and an lld channel (findBin(startEnergy), which is   *)
(* -1 for a start energy at or below the scale).                           *)
(***************************************************************************)
Mus == {R(0), Rat(1, 2), R(1), R(2)}

AssembleTridiag ==
    \E mu \in Mus, lld \in (-1)..NBins(es) :
        /\ op = "init"
        /\ op' = "solve.A11"
        /\ args' = <<mu, R(lld)>>
        /\ ret' = Value(TridiagBlock(Len(counts), mu, lld))
        /\ UNCHANGED <<es, counts, sensor, chan, spa, an>>

NextTridiag == AssembleTridiag

SpecTridiag == InitScale /\ [][NextTridiag]_vars

\* the coefficient c_i of the claim, for rows 0..N-1 and c_{-1}
ClaimC(i, n, mu, lld) ==
    IF i < 0 \/ i >= n - 1 THEN R(0)
    ELSE IF i > lld THEN RMul(R(i), mu) ELSE R(0)

\* C9: the tridiagonal block T is symmetric with diagonal
\* T[i,i] = 1 + c_{i-1} + c_i and off-diagonals T[i,i+1] = T[i+1,i] = -c_i,
\* where c_i = i*mu for i > lld_channel and 0 otherwise, c_{-1} = c_{N-1} = 0,
\* so every row, the last included, sums to 1.
C9_TridiagBlock ==
    op = "solve.A11" =>
        LET T == ret.val
            n == Len(counts)
            mu == args[1]
            lld == args[2][1]
        IN  /\ \A i \in 0..(n - 1) :
                  T[2][i + 1] = RAdd(RAdd(R(1), ClaimC(i - 1, n, mu, lld)),
                                     ClaimC(i, n, mu, lld))
            /\ \A i \in 0..(n - 2) :
                  /\ T[1][i + 1] = RNeg(ClaimC(i, n, mu, lld))
                  /\ T[3][i + 2] = RNeg(ClaimC(i, n, mu, lld))
            /\ \A i \in 0..(n - 1) :
                  RAdd(RAdd(T[2][i + 1],
                            IF i < n - 1 THEN T[1][i + 1] ELSE R(0)),
                       IF i > 0 THEN T[3][i + 1] ELSE R(0)) = R(1)

(***************************************************************************)
(* SpecSmooth: smooth() of a signal with a constant lambda.                *)
(***************************************************************************)
Lambdas == {R(0), Rat(1, 2), R(1), R(3)}

Smooth ==
    \E l \in Lambdas :
        /\ op = "init"
        /\ op' = "smooth"
        /\ args' = <<l, SmoothBand(Len(counts), Const(l))>>
        /\ ret' = smooth(counts, Const(l))
        /\ UNCHANGED <<es, counts, sensor, chan, spa, an>>

NextSmooth == Smooth

SpecSmooth == InitScale /\ [][NextSmooth]_vars

\* the sum of column j (0-based) of the banded matrix
ColumnSum(ab, j, n) ==
    RAdd(RAdd(ab[2][j + 1], IF j > 0 THEN ab[1][j + 1] ELSE R(0)),
         IF j < n - 1 THEN ab[3][j + 1] ELSE R(0))

AnChannels == 6
MaxAmp == 1
PeakHeight == 3
MaxContinuum == 1

UniformScale(n, w) == [k \in 1..(n + 1) |-> R((k - 1) * w)]
AnalysisScales == {UniformScale(AnChannels, 1)}
AnalysisSensors == {s \in Sensors : s.electronicNoise = R(0)}
AnalysisCounts(n) == {[k \in 1..n |-> R(c)] : c \in {0, 1}}
Analyses ==
    {[startEnergy |-> R(e), endEnergy |-> R(3000), smoothingFactor |-> f] :
        e \in {0, 2}, f \in {R(0), Rat(20 * AnChannels, AnChannels + 1)}}
\* the product of a banded matrix and a vector
BandTimes(ab, x) ==
    [i1 \in 1..Len(x) |->
        LET i == i1 - 1
        IN  RAdd(RMul(BandDiag(ab, i), x[i1]),
                 RAdd(IF i < Len(x) - 1 THEN RMul(BandUp(ab, i), x[i1 + 1]) ELSE R(0),
                      IF i > 0 THEN RMul(BandLow(ab, i), x[i1 - 1]) ELSE R(0)))]
\* the count floor under the peaks: with mu / 20 = 1 the spectra of Smoothed
\* are non-negative from a floor of twice the peak height
Floor == 2 * PeakHeight
\* lightly smoothed spectra y whose smoothing by mu / 20 in getInitialPeaks
\* is a spectrum of whole heights Floor or Floor + PeakHeight
Smoothed(n, mu) ==
    {BandTimes(SmoothBand(n, Const(RMul(mu, Twentieth))), u) :
        u \in [1..n -> {R(Floor), R(Floor + PeakHeight)}]}
\* baselines: none, or the floor
Baselines(n) == {[k \in 1..n |-> R(c)] : c \in {0, Floor}}
Amplitudes == {R(a) : a \in 0..MaxAmp}
Continua(n) == {[k \in 1..n |-> R(c)] : c \in (-MaxContinuum)..MaxContinuum}

Idle(pc) ==
    [pc |-> pc, mu |-> R(0), y |-> <<>>, baseline0 |-> <<>>, scanned |-> <<>>,
     potential |-> <<>>, peaks |-> <<>>, solved |-> <<>>, continuum |-> <<>>, lld |-> 0]

InitAnalyze ==
    /\ es \in AnalysisScales
    /\ counts \in AnalysisCounts(NBins(es))
    /\ sensor \in AnalysisSensors
    /\ spa \in Analyses
    /\ an = Idle("start")
    /\ op = "analyze"
    /\ args = <<>>
    /\ ret = Value(R(0))
    /\ chan = <<>>

AllZero(x) == \A k \in 1..Len(x) : x[k] = R(0)

\* mu and computeBaseline (lines 421-429)
ComputeBaseline ==
    /\ an.pc = "start"
    /\ LET mu == RDiv(RMul(spa.smoothingFactor, R(Len(es))),
                      RSub(PyIndex(es, -1), PyIndex(es, 0)))
       IN  IF mu = R(0)
           THEN an' = Let(computeBaseline(counts, mu), LAMBDA r :
                            [an EXCEPT !.pc = "baseline", !.mu = mu,
                                       !.baseline0 = r[1], !.y = r[2]])
           ELSE IF AllZero(counts)
           THEN an' = [an EXCEPT !.pc = "baseline", !.mu = mu,
                                 !.baseline0 = Zeros(Len(counts)),
                                 !.y = Zeros(Len(counts))]
           ELSE \E y \in Smoothed(Len(counts), mu), b \in Baselines(Len(counts)) :
                    an' = [an EXCEPT !.pc = "baseline", !.mu = mu,
                                     !.baseline0 = b, !.y = y]
    /\ UNCHANGED <<es, counts, sensor, op, args, ret, chan, spa>>

\* getInitialPeaks (lines 432-433)
GetInitialPeaks ==
    /\ an.pc = "baseline"
    /\ LET r == getInitialPeaks(an.y, an.baseline0, es, sensor, spa.startEnergy, an.mu)
       IN  IF r.err # ""
           THEN /\ an' = [an EXCEPT !.pc = "raised"]
                /\ ret' = [err |-> r.err, val |-> R(0)]
           ELSE /\ an' = [an EXCEPT !.pc = "proposed", !.peaks = r.val,
                                    !.potential = r.potential, !.scanned = r.scanned]
                /\ ret' = ret
    /\ UNCHANGED <<es, counts, sensor, op, args, chan, spa>>

\* addNeighborPeaks and responsePeaks (lines 435-438)
ExpandPeaks ==
    /\ an.pc = "proposed"
    /\ an' = [an EXCEPT !.pc = "expanded",
                        !.peaks = responsePeaks(addNeighborPeaks(an.peaks, sensor),
                                                sensor, es)]
    /\ UNCHANGED <<es, counts, sensor, op, args, ret, chan, spa>>

\* The shape of an array: <<rows, columns>>, or <<n>> for one dimension.
ShapeT(a) == IF Len(a) = 2 THEN <<a[2], a[1]>> ELSE a
\* the shape of a @ b, or numpy's ValueError
ShapeMatMul(a, b) ==
    IF Len(a) = 2 /\ Len(b) = 2
    THEN IF a[2] = b[1] THEN Value(<<a[1], b[2]>>) ELSE Raise("ValueError")
    ELSE IF Len(a) = 1 /\ Len(b) = 2
    THEN IF a[1] = b[1] THEN Value(<<b[2]>>) ELSE Raise("ValueError")
    ELSE IF Len(a) = 2 /\ Len(b) = 1
    THEN IF a[2] = b[1] THEN Value(<<a[1]>>) ELSE Raise("ValueError")
    ELSE IF a[1] = b[1] THEN Value(<<>>) ELSE Raise("ValueError")

\* SolveAugmentedTridiag.__init__ on the shapes of its six arguments: the
\* exception it raises, or "" when the solver is constructed
SolveAugmentedTridiagInit(A11, A12, A21, A22, B1, B2) ==
    IF \E a \in {A11, A21, A12, A22} : Len(a) < 2 THEN "IndexError"
    ELSE IF 3 # A11[1] THEN "ValueError"
    ELSE IF A11[2] # A21[2] THEN "ValueError"
    ELSE IF A12[2] # A22[2] THEN "ValueError"
    ELSE IF B1[1] # A12[1] THEN "ValueError"
    ELSE IF B2[1] # A21[1] \/ B2[1] # A22[1] THEN "ValueError"
    ELSE ""

\* the shape of S in solve without the case of an empty peak list:
\* np.array([]).T has one dimension of length 0
PeakShapesOfList(peaks, n1) ==
    IF peaks = <<>> THEN <<0>> ELSE <<n1, Len(peaks)>>
\* the shape of S in solve: one column of zeros for an empty peak list
PeakShapes(peaks, n1) ==
    IF peaks = <<>> THEN <<n1, 1>> ELSE <<n1, Len(peaks)>>

\* solve up to the construction of the solver (lines 254-284): the
\* exception raised, or ""
SolveSetup(peaks, n1) ==
    LET S == PeakShapes(peaks, n1)
        A11 == <<3, n1>>
        B1 == <<n1, 1>>
        B2 == ShapeMatMul(ShapeT(S), B1)
        A22 == ShapeMatMul(ShapeT(S), S)
    IN  IF B2.err # "" THEN B2.err
        ELSE IF A22.err # "" THEN A22.err
        ELSE SolveAugmentedTridiagInit(A11, S, ShapeT(S), A22.val, B1, B2.val)

\* solve (lines 441-442): C2 by nnls, C1 by back substitution
Solve ==
    /\ an.pc = "expanded"
    /\ LET e == SolveSetup(an.peaks, Len(counts))
       IN  IF e # ""
           THEN /\ an' = [an EXCEPT !.pc = "raised"]
                /\ ret' = [err |-> e, val |-> R(0)]
           ELSE /\ \E intensity \in [1..Len(an.peaks) -> Amplitudes],
                      baseline \in Continua(Len(counts)) :
                        an' = [an EXCEPT !.pc = "solved",
                                         !.lld = findBin(es, spa.startEnergy),
                                         !.peaks = SolvedPeaks(an.peaks, sensor, intensity),
                                         !.solved = intensity,
                                         !.continuum = baseline]
                /\ ret' = ret
    /\ UNCHANGED <<es, counts, sensor, op, args, chan, spa>>

\* responsePeaks and combineNeighborPeaks (lines 443-444)
CombinePeaks ==
    /\ an.pc = "solved"
    /\ LET r == combineNeighborPeaks(responsePeaks(an.peaks, sensor, es), es)
       IN  IF r.err # ""
           THEN /\ an' = [an EXCEPT !.pc = "raised"]
                /\ ret' = [err |-> r.err, val |-> R(0)]
           ELSE /\ an' = [an EXCEPT !.pc = "combined", !.peaks = r.val]
                /\ ret' = ret
    /\ UNCHANGED <<es, counts, sensor, op, args, chan, spa>>

\* the continuum spectrum, the peaks' baselines and the result (lines 446-451)
ReturnResult ==
    /\ an.pc = "combined"
    /\ LET r == FillBaselines(an.peaks, an.continuum, es, 1)
       IN  IF r.err # ""
           THEN /\ an' = [an EXCEPT !.pc = "raised"]
                /\ ret' = [err |-> r.err, val |-> R(0)]
           ELSE /\ an' = [an EXCEPT !.pc = "done", !.peaks = r.val]
                /\ ret' = [err |-> "", val |-> R(Len(r.val))]
    /\ UNCHANGED <<es, counts, sensor, op, args, chan, spa>>

NextAnalyze ==
    \/ ComputeBaseline
    \/ GetInitialPeaks
    \/ ExpandPeaks
    \/ Solve
    \/ CombinePeaks
    \/ ReturnResult

SpecAnalyze == InitAnalyze /\ [][NextAnalyze]_vars

\* the PeakResult analyze returned
Returned == an.pc = "done"

\* C6: in every PeakResult returned by analyze the peaks are ordered
\* strictly by ascending energy.
C6_PeaksAscending ==
    Returned =>
        \A k \in 1..(Len(an.peaks) - 1) :
            RLt(an.peaks[k].energy, an.peaks[k + 1].energy)

\* the total amplitude I of the g-th triple of solved amplitudes
GroupTotal(g) ==
    RAdd(an.solved[3 * g - 2], RAdd(an.solved[3 * g - 1], an.solved[3 * g]))
PositiveGroups == {g \in 1..(Len(an.solved) \div 3) : RLt(R(0), GroupTotal(g))}

\* C7: every peak returned by analyze has intensity >= 0 and width > 0:
\* the solved triple amplitudes are all non-negative, and the peaks emitted
\* are exactly the triple groups whose total amplitude I is positive, a
\* group with I = 0 being discarded.
C7_IntensityAndWidth ==
    an.pc \in {"combined", "done"} =>
        /\ \A k \in 1..Len(an.solved) : RLe(R(0), an.solved[k])
        /\ Len(an.peaks) = Cardinality(PositiveGroups)
        /\ \A k \in 1..Len(an.peaks) :
              /\ RLt(R(0), an.peaks[k].intensity)
              /\ RLt(R(0), an.peaks[k].width)

\* a result with a peak from a group of positive total amplitude, another
\* group of total amplitude 0 having been discarded
C7_Witness ==
    /\ Returned
    /\ Len(an.peaks) >= 1
    /\ Len(an.solved) \div 3 > Len(an.peaks)

\* C8: every peak returned by analyze has baseline >= 0.
C8_BaselineNonNegative ==
    Returned => \A k \in 1..Len(an.peaks) : RLe(R(0), an.peaks[k].baseline)

\* C11: the smoothing scale analyze uses is
\* mu = smoothingFactor * N / (edges[N] - edges[0]) with N the number of
\* bins (the number of counts), not the number of edges.
C11_SmoothingScale ==
    an.pc \notin {"idle", "start"} =>
        an.mu = RDiv(RMul(spa.smoothingFactor, R(Len(counts))),
                     RSub(es[NBins(es) + 1], es[1]))

MaxCalls == 2
MaxLivetime == 2
MaxPeaks == 1

\* Python's None where a number or a string may stand
None == <<>>
\* None where a Spectrum or a PeakResult may stand, and an attribute that
\* the object does not have (hasattr is false)
NoSpectrum == [none |-> TRUE]
NoAttribute == [missing |-> TRUE]

Spectrum(cnt, energyScale, rt, lt, distance, gamma_dose, title) ==
    [counts |-> cnt, energyScale |-> energyScale, livetime |-> lt,
     realtime |-> rt, distance |-> distance, gamma_dose |-> gamma_dose,
     title |-> title]

\* s[start::2]
Stride2(s, start) ==
    [k \in 1..((Len(s) - start + 1) \div 2) |-> s[start + 2 * k - 1]]
\* a + b on one-dimensional arrays, with numpy's broadcasting of length 1
NpAdd(a, b) ==
    IF Len(a) = Len(b) THEN Value([k \in 1..Len(a) |-> RAdd(a[k], b[k])])
    ELSE IF Len(b) = 1 THEN Value([k \in 1..Len(a) |-> RAdd(a[k], b[1])])
    ELSE IF Len(a) = 1 THEN Value([k \in 1..Len(b) |-> RAdd(a[1], b[k])])
    ELSE Raise("ValueError")
\* energyScale[index]: EnergyScale defines no __getitem__
EnergyScaleGetItem(energyScale, index) == Raise("TypeError")
\* range(0, n, 2)
Range2(n) == [k \in 1..((n + 1) \div 2) |-> 2 * (k - 1)]

downsample(sp) ==
    LET c == NpAdd(Stride2(sp.counts, 0), Stride2(sp.counts, 1))
    IN  IF c.err # "" THEN c
        ELSE LET e == EnergyScaleGetItem(sp.energyScale, Range2(Len(sp.energyScale)))
             IN  IF e.err # "" THEN e
                 ELSE Value(Spectrum(c.val, e.val, sp.realtime, sp.livetime,
                                     None, None, sp.title))

\* np.array(a) is a copy of a: what is later written to the copy (after)
\* does not reach a
ArrayAlias(a, after) == after
ArrayCopy(a, after) == a

SmoothPeakResult(peaks, continuum, sensorModel) ==
    [peaks |-> peaks, continuum |-> continuum, sensor |-> sensorModel]
PeakResults(sample, intrinsic, scale_factor) ==
    [sample |-> sample, intrinsic |-> intrinsic, scale_factor |-> scale_factor]

\* __analyze_spectrum: the result or the exception, and the spectrum as the
\* call leaves it
analyze_spectrum(self, sensorModel, spectrum, procedure) ==
    LET o == procedure[spectrum.counts]
        after == [spectrum EXCEPT !.counts = ArrayCopy(@, o.B1)]
    IN  IF o.err # ""
        THEN [err |-> o.err, val |-> NoSpectrum, spectrum |-> after]
        ELSE [err |-> "",
              val |-> SmoothPeakResult(o.peaks,
                         Spectrum(o.B1, spectrum.energyScale, R(1), R(1),
                                  None, None, None),
                         sensorModel),
              spectrum |-> after]

PyTrueDivInverted(x, y) ==
    IF y = R(0) THEN Raise("ZeroDivisionError") ELSE Value(RDiv(y, x))
\* x / y on Python numbers
PyTrueDiv(x, y) == IF y = R(0) THEN Raise("ZeroDivisionError") ELSE Value(RDiv(x, y))

\* analyze: the PeakResults or the exception, and id_input as the call
\* leaves it
analyze(self, sensorModel, id_input, down, procedure) ==
    LET failed(e) == [err |-> e, val |-> NoSpectrum, id_input |-> id_input]
        ds == IF down THEN downsample(id_input.sample) ELSE Value(id_input.sample)
    IN  IF ds.err # "" THEN failed(ds.err)
        ELSE
        LET sr == analyze_spectrum(self, sensorModel, ds.val, procedure)
            in1 == IF down THEN id_input ELSE [id_input EXCEPT !.sample = sr.spectrum]
        IN  IF sr.err # "" THEN [err |-> sr.err, val |-> NoSpectrum, id_input |-> in1]
            ELSE IF id_input.intrinsic \in {NoAttribute, NoSpectrum}
            THEN [err |-> "", val |-> PeakResults(sr.val, NoSpectrum, None),
                  id_input |-> in1]
            ELSE
            LET di == IF down THEN downsample(id_input.intrinsic)
                              ELSE Value(id_input.intrinsic)
            IN  IF di.err # "" THEN [err |-> di.err, val |-> NoSpectrum, id_input |-> in1]
                ELSE
                LET ir == analyze_spectrum(self, sensorModel, di.val, procedure)
                    in2 == IF down THEN in1 ELSE [in1 EXCEPT !.intrinsic = ir.spectrum]
                    sf == PyTrueDiv(ds.val.livetime, di.val.livetime)
                IN  IF ir.err # "" THEN [err |-> ir.err, val |-> NoSpectrum, id_input |-> in2]
                    ELSE IF sf.err # "" THEN [err |-> sf.err, val |-> NoSpectrum, id_input |-> in2]
                    ELSE [err |-> "", val |-> PeakResults(sr.val, ir.val, sf.val),
                          id_input |-> in2]

InputScale == UniformScale(2, 1)
InputCounts == {<<R(0), R(0)>>, <<R(1), R(2)>>}
InputSpectra ==
    {Spectrum(c, InputScale, R(1), R(lt), None, None, None) :
        c \in InputCounts, lt \in 0..MaxLivetime}
IdentificationInput(sample, intrinsic) == [sample |-> sample, intrinsic |-> intrinsic]
Outcomes ==
    {[err |-> "ValueError", peaks |-> 0, B1 |-> <<R(0), R(0)>>]} \cup
    {[err |-> "", peaks |-> k, B1 |-> <<R(b), R(b)>>] : k \in 0..MaxPeaks, b \in {0, 1}}

\* the calls made so far: an.given is the input and an.first the outcome of
\* the first call, an.down the downsample argument of the last one
Called(pc, calls, given, first, down, procedure) ==
    [pc |-> pc, calls |-> calls, given |-> given, first |-> first, down |-> down,
     procedure |-> procedure]

InitInput ==
    /\ es = InputScale
    /\ counts = <<>>
    /\ sensor \in {s \in AnalysisSensors : s.B = Rat(1, 10)}
    /\ spa \in {a \in Analyses : a.smoothingFactor = R(0)}
    /\ args \in {IdentificationInput(s, i) :
                    s \in InputSpectra,
                    i \in InputSpectra \cup {NoSpectrum, NoAttribute}}
    /\ an \in {Called("ready", 0, NoSpectrum, NoSpectrum, FALSE, f) :
                  f \in [InputCounts -> Outcomes]}
    /\ op = "init"
    /\ ret = Value(NoSpectrum)
    /\ chan = <<>>

Analyze ==
    /\ an.calls < MaxCalls
    /\ \E down \in BOOLEAN :
          LET r == analyze(spa, sensor, args, down, an.procedure)
          IN  /\ ret' = [err |-> r.err, val |-> r.val]
              /\ args' = r.id_input
              /\ an' = Called(IF r.err = "" THEN "returned" ELSE "raised",
                              an.calls + 1,
                              IF an.calls = 0
                              THEN [id_input |-> args, sensor |-> sensor, self |-> spa]
                              ELSE an.given,
                              IF an.calls = 0
                              THEN [err |-> r.err, val |-> r.val, down |-> down]
                              ELSE an.first,
                              down, an.procedure)
    /\ op' = "analyze"
    /\ UNCHANGED <<es, counts, sensor, chan, spa>>

NextInput == Analyze

SpecInput == InitInput /\ [][NextInput]_vars

\* C12: analyze returns an intrinsic PeakResult and a scale_factor exactly
\* when the input carries an intrinsic spectrum: the intrinsic spectrum is
\* then analyzed by the same procedure as the sample and scale_factor is
\* sample.livetime / intrinsic.livetime; otherwise both are None.  The
\* sample result is always present.
C12_IntrinsicAndScale ==
    (op = "analyze" /\ an.pc = "returned" /\ ~an.down) =>
        LET carries == args.intrinsic \notin {NoAttribute, NoSpectrum}
            self == spa
        IN  /\ ret.val.sample =
                   analyze_spectrum(self, sensor, args.sample, an.procedure).val
            /\ ret.val.sample # NoSpectrum
            /\ carries =>
                  /\ ret.val.intrinsic =
                         analyze_spectrum(self, sensor, args.intrinsic, an.procedure).val
                  /\ ret.val.intrinsic # NoSpectrum
                  /\ ret.val.scale_factor # None
                  /\ RMul(ret.val.scale_factor, args.intrinsic.livetime)
                         = args.sample.livetime
            /\ ~carries =>
                  /\ ret.val.intrinsic = NoSpectrum
                  /\ ret.val.scale_factor = None

\* a returned result with an intrinsic part and a scale factor other than 1
C12_Witness ==
    /\ op = "analyze"
    /\ an.pc = "returned"
    /\ ret.val.intrinsic # NoSpectrum
    /\ ret.val.scale_factor = Rat(1, 2)

(***************************************************************************)
(* SpecSolver: the construction of SolveAugmentedTridiag from six arrays   *)
(* of any shapes.                                                          *)
(***************************************************************************)
MaxDim == 2

Dims == 1..MaxDim
Shapes2 == {<<r, c>> : r \in Dims, c \in Dims}
BandShapes == {<<r, c>> : r \in {2, 3}, c \in Dims}
ColumnShapes == {<<r, 1>> : r \in Dims}

InitSolver ==
    /\ args \in {<<A11, A12, A21, A22, B1, B2>> :
                    A11 \in BandShapes, A12 \in Shapes2, A21 \in Shapes2,
                    A22 \in Shapes2, B1 \in ColumnShapes, B2 \in ColumnShapes}
    /\ op = "init"
    /\ ret = Value(R(0))
    /\ es = <<>>
    /\ counts = <<>>
    /\ chan = <<>>
    /\ sensor = NoSensor
    /\ spa = NoAnalysis
    /\ an = NotRunning

Construct ==
    /\ op = "init"
    /\ op' = "SolveAugmentedTridiag"
    /\ ret' = [err |-> SolveAugmentedTridiagInit(args[1], args[2], args[3],
                                                 args[4], args[5], args[6]),
               val |-> R(0)]
    /\ UNCHANGED <<es, counts, sensor, args, chan, spa, an>>

NextSolver == Construct

SpecSolver == InitSolver /\ [][NextSolver]_vars

\* the block dimensions are consistent: A11 is 3 x N, A12 N x M, A21 M x N,
\* A22 M x M, B1 has N rows and B2 has M rows
Consistent(A11, A12, A21, A22, B1, B2) ==
    LET N == A11[2]
        M == A22[1]
    IN  /\ A11 = <<3, N>>
        /\ A12 = <<N, M>>
        /\ A21 = <<M, N>>
        /\ A22 = <<M, M>>
        /\ B1[1] = N
        /\ B2[1] = M

\* C14: constructing the augmented solver succeeds only when the block
\* dimensions are consistent; every inconsistent combination is rejected at
\* construction.
C14_ConsistentBlocks ==
    op = "SolveAugmentedTridiag" =>
        (ret.err = "" <=>
            Consistent(args[1], args[2], args[3], args[4], args[5], args[6]))

(***************************************************************************)
(* XML serialization.  A document is the tree of its elements; the text of *)
(* an element is the sequence of its characters, as str() writes them and  *)
(* as float() and np.fromstring read them.  The writers escape nothing, so *)
(* minidom rejects a document whose text holds "<" or "&".                 *)
(***************************************************************************)
DigitChars == <<"0", "1", "2", "3", "4", "5", "6", "7", "8", "9">>
IsDigit(c) == \E k \in 1..10 : DigitChars[k] = c
DigitVal(c) == (CHOOSE k \in 1..10 : DigitChars[k] = c) - 1

RECURSIVE IntDigits(_)
IntDigits(n) ==
    IF n < 10 THEN <<DigitChars[n + 1]>>
    ELSE IntDigits(n \div 10) \o <<DigitChars[(n % 10) + 1]>>
\* the digits after the point of r / d, r < d, by long division
RECURSIVE FracDigits(_, _)
FracDigits(r, d) ==
    IF r = 0 THEN <<>>
    ELSE <<DigitChars[((10 * r) \div d) + 1]>> \o FracDigits((10 * r) % d, d)
\* str(x) of a float x whose decimal expansion is short
PyStr(x) ==
    LET n == Abs(x[1])
        frac == FracDigits(n % x[2], x[2])
    IN  (IF x[1] < 0 THEN <<"-">> ELSE <<>>) \o IntDigits(n \div x[2]) \o <<".">>
            \o (IF frac = <<>> THEN <<"0">> ELSE frac)

RECURSIVE DigitsVal(_)
DigitsVal(t) ==
    IF t = <<>> THEN 0 ELSE 10 * DigitsVal(SubSeq(t, 1, Len(t) - 1)) + DigitVal(t[Len(t)])
RECURSIVE Pow10(_)
Pow10(k) == IF k = 0 THEN 1 ELSE 10 * Pow10(k - 1)
\* float(t) of the text t: sign, digits, and digits after a point
PyFloat(t) ==
    LET neg == t # <<>> /\ t[1] = "-"
        body == IF neg THEN Tail(t) ELSE t
        dots == {i \in 1..Len(body) : body[i] = "."}
        dot == IF dots = {} THEN Len(body) + 1 ELSE CHOOSE i \in dots : TRUE
        whole == SubSeq(body, 1, dot - 1)
        frac == SubSeq(body, dot + 1, Len(body))
    IN  IF \/ Cardinality(dots) > 1
           \/ \E i \in 1..Len(body) : ~IsDigit(body[i]) /\ body[i] # "."
           \/ whole \o frac = <<>>
        THEN Raise("ValueError")
        ELSE Value(Rat((IF neg THEN -1 ELSE 1) *
                           (DigitsVal(whole) * Pow10(Len(frac)) + DigitsVal(frac)),
                       Pow10(Len(frac))))

\* the text of an array: str(v) + " " for each value
RECURSIVE ArrayText(_)
ArrayText(a) == IF a = <<>> THEN <<>> ELSE PyStr(a[1]) \o <<" ">> \o ArrayText(Tail(a))
\* the tokens of a text between blanks
RECURSIVE Tokens(_, _)
Tokens(t, cur) ==
    IF t = <<>> THEN (IF cur = <<>> THEN <<>> ELSE <<cur>>)
    ELSE IF t[1] = " " THEN (IF cur = <<>> THEN <<>> ELSE <<cur>>) \o Tokens(Tail(t), <<>>)
    ELSE Tokens(Tail(t), Append(cur, t[1]))
\* np.fromstring(t, sep=" ")
NpFromString(t) ==
    LET tok == Tokens(t, <<>>)
        val == [k \in 1..Len(tok) |-> PyFloat(tok[k])]
    IN  IF \E k \in 1..Len(tok) : val[k].err # "" THEN Raise("ValueError")
        ELSE Value([k \in 1..Len(tok) |-> val[k].val])

Element(tag, name, text, children) ==
    [tag |-> tag, name |-> name, text |-> text, children |-> children]
\* <tag>text</tag>
TextElement(tag, text) == Element(tag, "", text, <<>>)
\* Python's truth value of a number or None, and of a string or None
TruthyNumber(v) == v # None /\ v # R(0)
TruthyString(v) == v # None /\ v[1] # <<>>
\* the same tests when the writer asks "is not None"
PresentNumber(v) == v # None

\* EnergyScale.toXml
EnergyScaleToXml(edges) ==
    Element("EnergyScale", "", <<>>, <<TextElement("edges", ArrayText(edges))>>)

\* node.firstChild.data of an element: the text, or AttributeError when
\* the element is empty and firstChild is None
FirstChildData(node) ==
    IF node.text = <<>> THEN Raise("AttributeError") ELSE Value(node.text)

\* loadEnergyScale (one child as written)
loadEnergyScale(element) ==
    IF \E k \in 1..Len(element.children) : element.children[k].tag # "edges"
    THEN Raise("ValueError")
    ELSE IF element.children = <<>> THEN Raise("UnboundLocalError")
    ELSE LET d == FirstChildData(element.children[Len(element.children)])
         IN  IF d.err # "" THEN d ELSE NpFromString(d.val)

\* the elements toXml writes for the attributes that are set
OptionalNumber(tag, v, written) ==
    IF written THEN <<TextElement(tag, PyStr(v))>> ELSE <<>>

\* Spectrum.toXml
SpectrumToXml(sp, name) ==
    Element("Spectrum", name, <<>>,
        <<TextElement("counts", ArrayText(sp.counts)), EnergyScaleToXml(sp.energyScale)>>
        \o OptionalNumber("livetime", sp.livetime, TruthyNumber(sp.livetime))
        \o OptionalNumber("realtime", sp.realtime, TruthyNumber(sp.realtime))
        \o OptionalNumber("distance", sp.distance, TruthyNumber(sp.distance))
        \o OptionalNumber("gamma_dose", sp.gamma_dose, TruthyNumber(sp.gamma_dose))
        \o (IF TruthyString(sp.title) THEN <<TextElement("title", sp.title[1])>> ELSE <<>>))

\* loadSpectrum: the loop over the child elements
RECURSIVE LoadSpectrumLoop(_, _, _)
LoadSpectrumLoop(children, k, out) ==
    IF k > Len(children) THEN Value(out)
    ELSE LET node == children[k]
         IN  IF node.tag = "counts"
             THEN LET d == FirstChildData(node)
                      c == IF d.err # "" THEN d ELSE NpFromString(d.val)
                  IN  IF c.err # "" THEN c
                      ELSE LoadSpectrumLoop(children, k + 1, [out EXCEPT !.counts = c.val])
             ELSE IF node.tag = "EnergyScale"
             THEN LET e == loadEnergyScale(node)
                  IN  IF e.err # "" THEN e
                      ELSE LoadSpectrumLoop(children, k + 1, [out EXCEPT !.energyScale = e.val])
             ELSE IF node.tag \in {"realtime", "livetime", "distance", "gamma_dose"}
             THEN LET d == FirstChildData(node)
                      f == IF d.err # "" THEN d ELSE PyFloat(d.val)
                  IN  IF f.err # "" THEN f
                      ELSE LoadSpectrumLoop(children, k + 1,
                               [out EXCEPT ![node.tag] = f.val])
             ELSE IF node.tag = "title"
             THEN LET d == FirstChildData(node)
                  IN  IF d.err # "" THEN d
                      ELSE LoadSpectrumLoop(children, k + 1, [out EXCEPT !.title = <<d.val>>])
             ELSE Raise("ValueError")

\* loadSpectrum: the fields not read keep the defaults of Spectrum(None, None)
loadSpectrum(element) ==
    LoadSpectrumLoop(element.children, 1,
                     Spectrum(None, None, R(1), R(1), None, None, None))

\* Peak.toXml: every attribute that is not None
PeakToXml(pk) ==
    Element("Peak", "", <<>>,
        OptionalNumber("energy", pk.energy, PresentNumber(pk.energy))
        \o OptionalNumber("intensity", pk.intensity, PresentNumber(pk.intensity))
        \o OptionalNumber("baseline", pk.baseline, PresentNumber(pk.baseline))
        \o OptionalNumber("width", pk.width, PresentNumber(pk.width)))

\* GaussianSensorModel.toXml: every attribute that is true
SensorToXml(s) ==
    Element("GaussianSensorModel", "", <<>>,
        OptionalNumber("resolution", s.resolution, TruthyNumber(s.resolution))
        \o OptionalNumber("resolutionEnergy", s.resolutionEnergy,
                          TruthyNumber(s.resolutionEnergy))
        \o OptionalNumber("electronicNoise", s.electronicNoise,
                          TruthyNumber(s.electronicNoise))
        \o OptionalNumber("wideningPower", s.wideningPower,
                          TruthyNumber(s.wideningPower)))

\* SmoothPeakResult.toXml
SmoothPeakResultToXml(r, name) ==
    Element("SmoothPeakResult", name, <<>>,
        [k \in 1..Len(r.peaks) |-> PeakToXml(r.peaks[k])]
        \o <<SpectrumToXml(r.continuum, "continuum"), SensorToXml(r.sensor)>>)

\* PeakResults.toXml
PeakResultsToXml(r) ==
    Element("PeakResults", "", <<>>,
        <<SmoothPeakResultToXml(r.sample, "sample")>>
        \o (IF r.intrinsic # NoSpectrum
            THEN <<SmoothPeakResultToXml(r.intrinsic, "intrinsic")>> ELSE <<>>)
        \o OptionalNumber("scale_factor", r.scale_factor,
                          PresentNumber(r.scale_factor)))

\* the float fields of an element's children, set on out in order
RECURSIVE LoadFloatFields(_, _, _, _)
LoadFloatFields(children, k, fields, out) ==
    IF k > Len(children) THEN Value(out)
    ELSE LET node == children[k]
         IN  IF node.tag \in fields
             THEN LET d == FirstChildData(node)
                      f == IF d.err # "" THEN d ELSE PyFloat(d.val)
                  IN  IF f.err # "" THEN f
                      ELSE LoadFloatFields(children, k + 1, fields,
                                           [out EXCEPT ![node.tag] = f.val])
             ELSE Raise("ValueError")

\* loadPeak: from Peak(None, None, None, width=0)
loadPeak(element) ==
    LoadFloatFields(element.children, 1, {"energy", "intensity", "baseline", "width"},
                    [energy |-> None, intensity |-> None, baseline |-> None,
                     width |-> R(0)])

\* loadGaussianSensorModel: from GaussianSensorModel(0.08), the
\* coefficients being updated at the end (here for wideningPower = 1)
loadGaussianSensorModel(element) ==
    LET f == LoadFloatFields(element.children, 1,
                 {"resolution", "resolutionEnergy", "wideningPower", "electronicNoise"},
                 [resolution |-> Rat(8, 100), resolutionEnergy |-> R(662),
                  electronicNoise |-> R(1), wideningPower |-> Rat(6, 10)])
    IN  IF f.err # "" THEN f
        ELSE IF f.val.wideningPower = R(1)
        THEN Value(GaussianSensorModel(f.val.resolution, f.val.resolutionEnergy,
                                       f.val.electronicNoise, f.val.wideningPower))
        ELSE Value(f.val)

\* loadSmoothPeakResult: the loop over the child elements
RECURSIVE LoadResultLoop(_, _, _)
LoadResultLoop(children, k, out) ==
    IF k > Len(children) THEN Value(out)
    ELSE LET node == children[k]
         IN  IF node.tag = "Peak"
             THEN LET pk == loadPeak(node)
                  IN  IF pk.err # "" THEN pk
                      ELSE LoadResultLoop(children, k + 1,
                               [out EXCEPT !.peaks = Append(@,
                                   Peak(pk.val.energy, pk.val.intensity,
                                        pk.val.baseline, pk.val.width))])
             ELSE IF node.tag = "Spectrum" /\ node.name = "" THEN Raise("KeyError")
             ELSE IF node.tag = "Spectrum" /\ node.name = "continuum"
             THEN LET c == loadSpectrum(node)
                  IN  IF c.err # "" THEN c
                      ELSE LoadResultLoop(children, k + 1, [out EXCEPT !.continuum = c.val])
             ELSE IF node.tag = "GaussianSensorModel"
             THEN LET g == loadGaussianSensorModel(node)
                  IN  IF g.err # "" THEN g
                      ELSE LoadResultLoop(children, k + 1, [out EXCEPT !.sensor = g.val])
             ELSE Raise("ValueError")

loadSmoothPeakResult(element) ==
    LoadResultLoop(element.children, 1, SmoothPeakResult(<<>>, NoSpectrum, NoSpectrum))

\* loadPeakResults: the loop over the child elements
RECURSIVE LoadResultsLoop(_, _, _)
LoadResultsLoop(children, k, out) ==
    IF k > Len(children) THEN Value(out)
    ELSE LET node == children[k]
         IN  IF node.tag = "SmoothPeakResult" /\ node.name = "" THEN Raise("KeyError")
             ELSE IF node.tag = "SmoothPeakResult" /\ node.name \in {"sample", "intrinsic"}
             THEN LET r == loadSmoothPeakResult(node)
                  IN  IF r.err # "" THEN r
                      ELSE LoadResultsLoop(children, k + 1,
                                           [out EXCEPT ![node.name] = r.val])
             ELSE IF node.tag = "scale_factor"
             THEN LET d == FirstChildData(node)
                      f == IF d.err # "" THEN d ELSE PyFloat(d.val)
                  IN  IF f.err # "" THEN f
                      ELSE LoadResultsLoop(children, k + 1,
                                           [out EXCEPT !.scale_factor = f.val])
             ELSE Raise("ValueError")

loadPeakResults(element) ==
    LoadResultsLoop(element.children, 1, PeakResults(NoSpectrum, NoSpectrum, None))

\* Label: name, ad and z (_label.py)
Label(name, ad, z) == [name |-> name, ad |-> ad, z |-> z]

\* Label.toXml: every attribute that is not None; the name is a text
LabelToXml(label) ==
    Element("Label", "", <<>>,
        (IF label.name # None THEN <<TextElement("name", label.name[1])>> ELSE <<>>)
        \o OptionalNumber("ad", label.ad, PresentNumber(label.ad))
        \o OptionalNumber("z", label.z, PresentNumber(label.z)))

\* loadLabel: the loop over the child elements
RECURSIVE LoadLabelLoop(_, _, _)
LoadLabelLoop(children, k, out) ==
    IF k > Len(children) THEN Value(out)
    ELSE LET node == children[k]
         IN  IF node.tag \in {"ad", "z"}
             THEN LET d == FirstChildData(node)
                      f == IF d.err # "" THEN d ELSE PyFloat(d.val)
                  IN  IF f.err # "" THEN f
                      ELSE LoadLabelLoop(children, k + 1, [out EXCEPT ![node.tag] = f.val])
             ELSE IF node.tag = "name"
             THEN LET d == FirstChildData(node)
                  IN  IF d.err # "" THEN d
                      ELSE LoadLabelLoop(children, k + 1, [out EXCEPT !.name = <<d.val>>])
             ELSE Raise("ValueError")

\* loadLabel: starts from Label(), name "", z 0, ad 0
loadLabel(element) == LoadLabelLoop(element.children, 1, Label(<<(<<>>)>>, R(0), R(0)))

\* IdentificationInput(sample, label=label): no background, no intrinsic,
\* distance 1.0
LabelledInput(sample, label) ==
    [sample |-> sample, background |-> None, intrinsic |-> None,
     distance |-> R(1), label |-> label]

\* IdentificationInput.toXml
IdentificationInputToXml(input) ==
    Element("IdentificationInput", "", <<>>,
        <<SpectrumToXml(input.sample, "sample")>>
        \o (IF input.background # None
            THEN <<SpectrumToXml(input.background, "background")>> ELSE <<>>)
        \o (IF input.intrinsic # None
            THEN <<SpectrumToXml(input.intrinsic, "intrinsic")>> ELSE <<>>)
        \o (IF input.label # None
            THEN <<LabelToXml(input.label)>> ELSE <<>>)
        \o <<TextElement("distance", PyStr(input.distance))>>)

\* loadIdentificationInput: the loop over the child elements
RECURSIVE LoadInputLoop(_, _, _)
LoadInputLoop(children, k, out) ==
    IF k > Len(children) THEN Value(out)
    ELSE LET node == children[k]
         IN  IF node.tag = "Spectrum" /\ node.name \in {"sample", "background", "intrinsic"}
             THEN Let(loadSpectrum(node), LAMBDA sp :
                    IF sp.err # "" THEN sp
                    ELSE LoadInputLoop(children, k + 1, [out EXCEPT ![node.name] = sp.val]))
             ELSE IF node.tag = "distance"
             THEN LET d == FirstChildData(node)
                      f == IF d.err # "" THEN d ELSE PyFloat(d.val)
                  IN  IF f.err # "" THEN f
                      ELSE LoadInputLoop(children, k + 1, [out EXCEPT !.distance = f.val])
             ELSE IF node.tag = "label"
             THEN Let(loadLabel(node), LAMBDA lb :
                    IF lb.err # "" THEN lb
                    ELSE LoadInputLoop(children, k + 1, [out EXCEPT !.label = lb.val]))
             ELSE Raise("ValueError")

\* loadIdentificationInput: starts from IdentificationInput(sample = None)
loadIdentificationInput(element) ==
    LoadInputLoop(element.children, 1, LabelledInput(None, None))

\* IdentificationInputList.toXml
IdentificationInputListToXml(inputs) ==
    Element("IdentificationInputList", "", <<>>,
        [k \in 1..Len(inputs) |-> IdentificationInputToXml(inputs[k])])

RECURSIVE LoadInputListLoop(_, _, _)
LoadInputListLoop(children, k, out) ==
    IF k > Len(children) THEN Value(out)
    ELSE IF children[k].tag # "IdentificationInput" THEN Raise("ValueError")
    ELSE Let(loadIdentificationInput(children[k]), LAMBDA input :
           IF input.err # "" THEN input
           ELSE LoadInputListLoop(children, k + 1, Append(out, input.val)))

loadIdentificationInputList(element) == LoadInputListLoop(element.children, 1, <<>>)

\* minidom's parse of the document as written: not well-formed when a text
\* holds markup characters
RECURSIVE WellFormed(_)
WellFormed(element) ==
    /\ \A i \in 1..Len(element.text) : element.text[i] \notin {"<", "&"}
    /\ \A k \in 1..Len(element.children) : WellFormed(element.children[k])

\* loadXml: parse, then the reader registered for the root element
loadXml(document) ==
    IF ~WellFormed(document) THEN Raise("ExpatError")
    ELSE IF document.tag = "Spectrum" THEN loadSpectrum(document)
    ELSE IF document.tag = "EnergyScale" THEN loadEnergyScale(document)
    ELSE IF document.tag = "PeakResults" THEN loadPeakResults(document)
    ELSE IF document.tag = "GaussianSensorModel" THEN loadGaussianSensorModel(document)
    ELSE IF document.tag = "IdentificationInputList"
    THEN loadIdentificationInputList(document)
    ELSE Raise("ValueError")

(***************************************************************************)
(* SpecXml: a Spectrum or a PeakResults is written with write() and read   *)
(* with loadXml.                                                           *)
(***************************************************************************)
MaxTime == 1
MaxTitle == 2

XmlCounts == {<<R(0)>>, <<R(1), Rat(3, 2)>>}
XmlScales == {UniformScale(1, 1), UniformScale(2, 1)}
Times == {Rat(k, 2) : k \in 0..(2 * MaxTime)}
OptionalTimes == {None} \cup {R(k) : k \in 0..MaxTime}
Titles == {None} \cup {<<t>> : t \in UNION {[1..n -> {"a", "<"}] : n \in 0..MaxTitle}}
XmlSpectra ==
    {Spectrum(c, e, rt, lt, d, g, t) :
        c \in XmlCounts, e \in XmlScales,
        rt \in Times, lt \in Times, d \in OptionalTimes, g \in {None, R(0), R(1)},
        t \in Titles}

MaxXmlPeaks == 2

XmlSensors ==
    {GaussianSensorModel(Rat(1, 2), R(2), en, R(1)) : en \in {R(0), R(1)}}
XmlPeaks ==
    {Peak(R(1), i, b, R(1)) : i \in {R(0), R(2)}, b \in {R(0), Rat(1, 2)}}
XmlPeakLists == UNION {[1..n -> XmlPeaks] : n \in 0..MaxXmlPeaks}
XmlContinua ==
    {Spectrum(c, UniformScale(Len(c), 1), R(1), R(1), None, None, None) : c \in XmlCounts}
XmlResults ==
    {SmoothPeakResult(p, c, s) : p \in XmlPeakLists, c \in XmlContinua, s \in XmlSensors}
XmlIntrinsic ==
    SmoothPeakResult(<<Peak(R(2), R(1), R(0), Rat(1, 2))>>,
                     Spectrum(<<R(1)>>, UniformScale(1, 1), R(1), R(1), None, None, None),
                     GaussianSensorModel(Rat(1, 2), R(2), R(1), R(1)))
XmlPeakResults ==
    {PeakResults(r, i, f) :
        r \in XmlResults, i \in {NoSpectrum, XmlIntrinsic},
        f \in {None, R(0), Rat(1, 2)}}

IsPeakResults(obj) == "sample" \in DOMAIN obj
\* self.toXml() of the object written
toXml(obj) == IF IsPeakResults(obj) THEN PeakResultsToXml(obj) ELSE SpectrumToXml(obj, "")

NoDocument == Element("", "", <<>>, <<>>)

InitXml ==
    /\ args \in {sp \in XmlSpectra : Len(sp.counts) = NBins(sp.energyScale)}
                \cup XmlPeakResults
    /\ chan = NoDocument
    /\ op = "init"
    /\ ret = Value(R(0))
    /\ es = <<>>
    /\ counts = <<>>
    /\ sensor = NoSensor
    /\ spa = NoAnalysis
    /\ an = NotRunning

\* Serializable.write: the document of toXml
Write ==
    /\ op = "init"
    /\ op' = "write"
    /\ chan' = toXml(args)
    /\ UNCHANGED <<es, counts, sensor, args, ret, spa, an>>

LoadXml ==
    /\ op = "write"
    /\ op' = "loadXml"
    /\ ret' = loadXml(chan)
    /\ UNCHANGED <<es, counts, sensor, args, chan, spa, an>>

NextXml == Write \/ LoadXml

SpecXml == InitXml /\ [][NextXml]_vars

\* C15: a Spectrum written with write() and read with loadXml has the same
\* counts, edges, realtime, livetime, distance, gamma_dose and title, for
\* every value of them, 0 and absent included.
C15_SpectrumRoundTrip ==
    (op = "loadXml" /\ ~IsPeakResults(args)) => (ret.err = "" /\ ret.val = args)

\* two peak results agree in what the round trip is to preserve
SameResult(a, b) ==
    IF a = NoSpectrum \/ b = NoSpectrum THEN a = b
    ELSE /\ a.continuum.energyScale = b.continuum.energyScale
         /\ a.continuum.counts = b.continuum.counts
         /\ Len(a.peaks) = Len(b.peaks)
         /\ \A k \in 1..Len(a.peaks) :
               /\ a.peaks[k].energy = b.peaks[k].energy
               /\ a.peaks[k].intensity = b.peaks[k].intensity
               /\ a.peaks[k].baseline = b.peaks[k].baseline
               /\ a.peaks[k].width = b.peaks[k].width
         /\ a.sensor.resolution = b.sensor.resolution
         /\ a.sensor.resolutionEnergy = b.sensor.resolutionEnergy
         /\ a.sensor.electronicNoise = b.sensor.electronicNoise
         /\ a.sensor.wideningPower = b.sensor.wideningPower

\* C16: a PeakResults written and read back has the same energy scale,
\* continuum counts, peaks (energy, intensity, baseline, width, in order),
\* sensor parameters and scale_factor.
C16_PeakResultsRoundTrip ==
    (op = "loadXml" /\ IsPeakResults(args)) =>
        /\ ret.err = ""
        /\ SameResult(ret.val.sample, args.sample)
        /\ SameResult(ret.val.intrinsic, args.intrinsic)
        /\ ret.val.scale_factor = args.scale_factor

(***************************************************************************)
(* SpecFeature: FeatureExtractorROI.extract on a PeakResults.  erf is      *)
(* replaced by a piecewise linear function (Erf), and np.sqrt is computed  *)
(* to SqrtDen parts of a unit; the effective energy of a region, which     *)
(* extract does not read, is not computed.                                 *)
(***************************************************************************)
SqrtDen == 2
MaxRois == 2
MaxNuclides == 2

RegionOfInterest(lower, upper) == [lower |-> lower, upper |-> upper]

\* np.sqrt(x), x >= 0 of moderate size: the largest k / SqrtDen of square <= x
NpSqrt(x) ==
    LET ks == {k \in 0..(SqrtDen * (RInt(x) + 1)) :
                  RLe(RMul(Rat(k, SqrtDen), Rat(k, SqrtDen)), x)}
    IN  Rat(CHOOSE k \in ks : \A j \in ks : j <= k, SqrtDen)

\* math.erf(z / root2) for z in widths of the peak: the error function is
\* replaced by an odd non-decreasing function that reaches -1 and 1 at 8
\* widths, where the floating-point erf does
Erf(z) ==
    IF RLe(z, R(-8)) THEN R(-1)
    ELSE IF RLe(R(8), z) THEN R(1)
    ELSE RDiv(z, R(8))

\* the filter without the 4 widths: every peak outside [e1, e2] is left out
SkippedOutside(peak, e1, e2) ==
    RLt(e2, peak.energy) \/ RLt(peak.energy, e1)
\* getRegionOfInterest: the two tests that leave a peak out (continue)
Skipped(peak, e1, e2) ==
    \/ RLt(e2, peak.energy) /\ RLt(R(4), RDiv(RSub(peak.energy, e2), peak.width))
    \/ RLt(peak.energy, e1) /\ RLt(R(4), RDiv(RSub(e1, peak.energy), peak.width))

\* SmoothPeakResult.getRegionOfInterest: the loop over the peaks
RECURSIVE RoiLoop(_, _, _, _, _)
RoiLoop(peaks, k, e1, e2, intensity) ==
    IF k > Len(peaks) THEN intensity
    ELSE LET peak == peaks[k]
         IN  IF Skipped(peak, e1, e2)
             THEN RoiLoop(peaks, k + 1, e1, e2, intensity)
             ELSE Let(RDiv(RMul(RSub(Erf(RDiv(RSub(e2, peak.energy), peak.width)),
                                     Erf(RDiv(RSub(e1, peak.energy), peak.width))),
                                peak.intensity), R(2)),
                      LAMBDA contribution :
                        RoiLoop(peaks, k + 1, e1, e2, RAdd(intensity, contribution)))

\* SmoothPeakResult.getRegionOfInterest
getRegionOfInterest(result, roi) ==
    LET intensity == RoiLoop(result.peaks, 1, roi.lower, roi.upper, R(0))
        integral == IF result.continuum = NoSpectrum THEN Value(R(0))
                    ELSE getIntegral(result.continuum.counts,
                                     result.continuum.energyScale, roi.lower, roi.upper)
    IN  IF integral.err # "" THEN integral
        ELSE Value(Peak(R(0), intensity, RMax(R(0), integral.val), R(0)))

\* extract without "if c < 0: c = 0"
Unclamped(c) == c
\* if c < 0: c = 0
ClampAtZero(c) == IF RLt(c, R(0)) THEN R(0) ELSE c

\* extract: the counts of one region
RoiCounts(peaks, roi) ==
    Let(getRegionOfInterest(peaks.sample, roi), LAMBDA result :
      IF result.err # "" THEN result
      ELSE Let(RAdd(result.val.intensity, NpSqrt(result.val.baseline)), LAMBDA c :
        IF peaks.intrinsic = NoSpectrum THEN Value(ClampAtZero(c))
        ELSE Let(getRegionOfInterest(peaks.intrinsic, roi), LAMBDA result_intrinsic :
          IF result_intrinsic.err # "" THEN result_intrinsic
          ELSE IF peaks.scale_factor = None THEN Raise("TypeError")
          ELSE Value(ClampAtZero(
                   RSub(c, RMul(result_intrinsic.val.intensity,
                                peaks.scale_factor)))))))

\* the first exception raised in a sequence of results
FirstRaised(c) ==
    Raise((c[CHOOSE i \in 1..Len(c) :
                c[i].err # "" /\ \A j \in 1..(i - 1) : c[j].err = ""]).err)

\* extract: the features of one nuclide, or the exception raised
NuclideFeatures(peaks, rois) ==
    Let([i \in 1..Len(rois) |-> RoiCounts(peaks, rois[i])], LAMBDA c :
      IF \E i \in 1..Len(rois) : c[i].err # "" THEN FirstRaised(c)
      ELSE Let(RSum([i \in 1..Len(rois) |-> c[i].val]), LAMBDA sum :
             Let(IF RLe(sum, R(0)) THEN R(1) ELSE sum, LAMBDA total :
               Value([roi |-> [i \in 1..Len(rois) |-> RDiv(c[i].val, total)],
                      total |-> total]))))

\* FeatureExtractorROI.extract
extract(nuclides, peaks) ==
    Let([n \in 1..Len(nuclides) |-> NuclideFeatures(peaks, nuclides[n])], LAMBDA f :
      IF \E n \in 1..Len(nuclides) : f[n].err # "" THEN FirstRaised(f)
      ELSE Value([n \in 1..Len(nuclides) |-> f[n].val]))

FeScale == UniformScale(4, 1)
FeRois == {RegionOfInterest(Rat(1, 2), Rat(3, 2)), RegionOfInterest(Rat(3, 2), Rat(7, 2)),
           RegionOfInterest(R(1), R(5))}
FeNuclides == UNION {[1..n -> FeRois] : n \in 1..MaxRois}
FeContinua ==
    {Spectrum([k \in 1..4 |-> R(c)], FeScale, R(1), R(1), None, None, None) :
        c \in {0, 4}}
FePeakLists ==
    {<<>>, <<Peak(R(1), R(2), R(0), Rat(1, 2))>>,
     <<Peak(R(1), R(2), R(0), Rat(1, 2)), Peak(R(3), R(4), R(0), Rat(1, 4))>>}
FeSensor == GaussianSensorModel(Rat(1, 2), R(2), R(1), R(1))
FeResults == {SmoothPeakResult(p, c, FeSensor) : p \in FePeakLists, c \in FeContinua}
FeIntrinsics ==
    {SmoothPeakResult(p, c, FeSensor) :
        p \in {q \in FePeakLists : Len(q) <= 1}, c \in {x \in FeContinua : x.counts[1] = R(0)}}
FePeakResults ==
    {PeakResults(r, NoSpectrum, None) : r \in FeResults} \cup
    {PeakResults(r, i, f) : r \in FeResults, i \in FeIntrinsics, f \in {Rat(1, 2), R(2)}}

\* args is <<the nuclides of the extractor, the PeakResults>>
InitFeature ==
    /\ args \in {<<nuclides, peaks>> :
                    nuclides \in UNION {[1..n -> FeNuclides] : n \in 1..MaxNuclides},
                    peaks \in FePeakResults}
    /\ op = "init"
    /\ ret = Value(R(0))
    /\ es = <<>>
    /\ counts = <<>>
    /\ chan = <<>>
    /\ sensor = NoSensor
    /\ spa = NoAnalysis
    /\ an = NotRunning

Extract ==
    /\ op = "init"
    /\ op' = "extract"
    /\ ret' = extract(args[1], args[2])
    /\ UNCHANGED <<es, counts, sensor, args, chan, spa, an>>

NextFeature == Extract

SpecFeature == InitFeature /\ [][NextFeature]_vars

Extracted == op = "extract" /\ ret.err = ""
\* the ROI peak intensity of a result, and the root of its baseline
RoiIntensity(result, roi) == getRegionOfInterest(result, roi).val.intensity
RoiNoise(result, roi) == NpSqrt(getRegionOfInterest(result, roi).val.baseline)
Max0(x) == RMax(R(0), x)
\* the value of a region before normalization, with the sample counts sc
NetCounts(sc, roi) ==
    IF args[2].intrinsic = NoSpectrum THEN Max0(sc)
    ELSE Max0(RSub(sc, RMul(args[2].scale_factor, RoiIntensity(args[2].intrinsic, roi))))
\* the sum of the values v, or 1 when it is not positive
Normalizer(v) == IF RLe(RSum(v), R(0)) THEN R(1) ELSE RSum(v)

\* C17 as stated: for each nuclide the value of each ROI is
\* max(0, sampleCounts - scale_factor * intrinsicCounts) divided by the sum
\* of these values over the nuclide's ROIs, the counts being the ROI peak
\* intensities; every ROI feature lies in [0, 1].
C17_RoiFeatures ==
    Extracted =>
        \A n \in 1..Len(args[1]) :
            LET rois == args[1][n]
                v == [i \in 1..Len(rois) |->
                         NetCounts(RoiIntensity(args[2].sample, rois[i]), rois[i])]
            IN  \A i \in 1..Len(rois) :
                    /\ RSum(v) # R(0) => ret.val[n].roi[i] = RDiv(v[i], RSum(v))
                    /\ RLe(R(0), ret.val[n].roi[i])
                    /\ RLe(ret.val[n].roi[i], R(1))

\* C17 amended: the sample counts of a ROI are its peak intensity plus the
\* square root of its continuum baseline; the value of each ROI is
\* max(0, sampleCounts - scale_factor * intrinsicIntensity) divided by the
\* sum of these values over the nuclide's ROIs (by 1 when the sum is 0);
\* every ROI feature lies in [0, 1].
C17_RoiFeaturesWithNoise ==
    Extracted =>
        \A n \in 1..Len(args[1]) :
            LET rois == args[1][n]
                v == [i \in 1..Len(rois) |->
                         NetCounts(RAdd(RoiIntensity(args[2].sample, rois[i]),
                                        RoiNoise(args[2].sample, rois[i])), rois[i])]
            IN  \A i \in 1..Len(rois) :
                    /\ ret.val[n].roi[i] = RDiv(v[i], Normalizer(v))
                    /\ RLe(R(0), ret.val[n].roi[i])
                    /\ RLe(ret.val[n].roi[i], R(1))

\* features of a nuclide with two regions, one of them emptied by the
\* subtraction of the intrinsic source and the other not
C17_Witness ==
    /\ Extracted
    /\ args[2].intrinsic # NoSpectrum
    /\ \E n \in 1..Len(args[1]) :
          /\ Len(args[1][n]) = 2
          /\ ret.val[n].roi[1] = R(0)
          /\ RLt(R(0), ret.val[n].roi[2])
          /\ RLt(R(0), RoiIntensity(args[2].sample, args[1][n][1]))

MaxDownBins == 5

DownSpectra ==
    {Spectrum(c, UniformScale(Len(c), 1), R(rt), R(lt), None, None, None) :
        c \in UNION {[1..n -> {R(0), R(1)}] : n \in 1..MaxDownBins},
        rt \in {1, 2}, lt \in {1, 2}}

InitDown ==
    /\ args \in DownSpectra
    /\ op = "init"
    /\ ret = Value(NoSpectrum)
    /\ es = <<>>
    /\ counts = <<>>
    /\ chan = <<>>
    /\ sensor = NoSensor
    /\ spa = NoAnalysis
    /\ an = NotRunning

Downsample ==
    /\ op = "init"
    /\ op' = "downsample"
    /\ ret' = downsample(args)
    /\ UNCHANGED <<es, counts, sensor, args, chan, spa, an>>

NextDown == Downsample

SpecDown == InitDown /\ [][NextDown]_vars

\* C19: the Spectrum downsample() returns has one count less than edges,
\* for an even and for an odd number of input bins; its counts are the sums
\* of adjacent pairs of input bins, its edges every other input edge, and
\* livetime and realtime are those of the input.
C19_DownsampleInvariant ==
    op = "downsample" =>
        /\ ret.err = ""
        /\ Len(ret.val.counts) = Len(ret.val.energyScale) - 1
        /\ \A k \in 1..Len(ret.val.counts) :
              ret.val.counts[k] = RAdd(args.counts[2 * k - 1], args.counts[2 * k])
        /\ \A k \in 1..Len(ret.val.energyScale) :
              ret.val.energyScale[k] = args.energyScale[2 * k - 1]
        /\ ret.val.livetime = args.livetime
        /\ ret.val.realtime = args.realtime

(***************************************************************************)
(* SpecNewScale: EnergyScale.newScale on Python numbers; x / 0 raises      *)
(* ZeroDivisionError.                                                      *)
(***************************************************************************)
MaxEnd == 6
MaxStep == 2

\* the end g of the grid of n bins, n # 1: the widths grow by accel a bin
GridEnd(start, startStep, accel, n) ==
    RAdd(RAdd(start, RMul(startStep, R(n))),
         RDiv(RMul(RMul(accel, R(n - 1)), R(n)), R(2)))

\* newScale: the while loop, down from n to the first grid ending below end
RECURSIVE NewScaleLoop(_, _, _, _, _)
NewScaleLoop(start, end, startStep, endStep, n) ==
    IF n - 1 = 0 THEN Raise("ZeroDivisionError")
    ELSE Let(RDiv(RSub(endStep, startStep), R(n - 1)), LAMBDA accel :
           Let(GridEnd(start, startStep, accel, n), LAMBDA g :
             IF RLt(g, end) THEN Value([n |-> n, accel |-> accel, g |-> g])
             ELSE NewScaleLoop(start, end, startStep, endStep, n - 1)))

\* newScale: the edges of the scale, or the exception raised
newScale(start, end, startStep, endStep) ==
    IF startStep = R(0) \/ endStep = R(0) THEN Raise("ZeroDivisionError")
    ELSE
    LET n0 == RDiv(RSub(end, start), startStep)
        n1 == RDiv(RSub(end, start), endStep)
        l == NewScaleLoop(start, end, startStep, endStep,
                          RInt(RDiv(RAdd(n0, n1), R(2))))
    IN  IF l.err # "" THEN l
        ELSE IF l.val.n = 0 \/ l.val.n + 1 = 0 THEN Raise("ZeroDivisionError")
        ELSE
        LET n == l.val.n
            miss0 == RDiv(RSub(end, l.val.g), R(n))
            accel1 == RDiv(RSub(endStep, startStep), R(n))
            g1 == RAdd(RAdd(start, RMul(startStep, R(n + 1))),
                       RDiv(RMul(RMul(accel1, R(n)), R(n + 1)), R(2)))
            miss1 == RDiv(RSub(end, g1), R(n + 1))
            longer == RLt(RNeg(miss1), miss0)
            accel == IF longer THEN accel1 ELSE l.val.accel
            m0 == IF longer THEN startStep ELSE RAdd(startStep, miss0)
            bins == IF longer THEN n + 1 ELSE n
        IN  Value([i1 \in 1..(bins + 1) |->
                      LET i == i1 - 1
                      IN  RAdd(RAdd(start, RMul(m0, R(i))),
                               RDiv(RMul(RMul(accel, R(i - 1)), R(i)), R(2)))])

Steps == {R(k) : k \in 1..MaxStep}
Ranges ==
    {<<R(start), Rat(k, 2)>> : start \in {0, 1}, k \in 1..(2 * MaxEnd)}

\* args is <<start, end, startStep, endStep>>
InitNewScale ==
    /\ args \in {<<r[1], r[2], s0, s1>> :
                    r \in {x \in Ranges : RLt(x[1], x[2])}, s0 \in Steps, s1 \in Steps}
    /\ op = "init"
    /\ ret = Value(<<>>)
    /\ es = <<>>
    /\ counts = <<>>
    /\ chan = <<>>
    /\ sensor = NoSensor
    /\ spa = NoAnalysis
    /\ an = NotRunning

NewScale ==
    /\ op = "init"
    /\ op' = "newScale"
    /\ ret' = newScale(args[1], args[2], args[3], args[4])
    /\ UNCHANGED <<es, counts, sensor, args, chan, spa, an>>

NextNewScale == NewScale

SpecNewScale == InitNewScale /\ [][NextNewScale]_vars

\* the end of the placement of k bins whose widths go linearly from
\* startStep to endStep: start + k (startStep + endStep) / 2
Placement(k) == RAdd(args[1], RMul(R(k), RDiv(RAdd(args[3], args[4]), R(2))))
\* the bin count of the placement that undershoots end
Undershoot ==
    CHOOSE n \in 0..(2 * MaxEnd) :
        RLt(Placement(n), args[2]) /\ RLe(args[2], Placement(n + 1))
\* the bin count the claim chooses: the smaller absolute residual at end,
\* the shorter grid on a tie
ChosenBins ==
    IF RLt(RAbs(RSub(args[2], Placement(Undershoot + 1))),
           RAbs(RSub(args[2], Placement(Undershoot))))
    THEN Undershoot + 1 ELSE Undershoot

\* C20: newScale(start, end, startStep, endStep) with start < end and
\* positive steps returns a grid with edges[0] = start whose bin count is
\* that of the undershooting placement n or of the overshooting placement
\* n + 1, whichever has the smaller absolute residual at end, the shorter
\* on a tie; with equal steps that divide the range exactly the edges are
\* exactly start, start + step, ..., end.
C20_NewScale ==
    op = "newScale" =>
        /\ ret.err = ""
        /\ ret.val[1] = args[1]
        /\ Len(ret.val) - 1 = ChosenBins
        /\ (args[3] = args[4] /\ RDiv(RSub(args[2], args[1]), args[3])[2] = 1) =>
              \A k \in 1..Len(ret.val) :
                  ret.val[k] = RAdd(args[1], RMul(R(k - 1), args[3]))

(***************************************************************************)
(* SpecRoi: SmoothPeakResult.getRegionOfInterest on a result with peaks    *)
(* of positive width (the width of a peak of a result is the sigma of the  *)
(* sensor at its energy) and no continuum, as in test_roi.                 *)
(***************************************************************************)
MaxRoiPeaks == 2
MaxRoiEnergy == 12

RoiPeaks ==
    {Peak(R(e), R(2), R(0), w) : e \in 0..MaxRoiEnergy, w \in {Rat(1, 2), R(1)}}
RoiPeakLists == UNION {[1..n -> RoiPeaks] : n \in 0..MaxRoiPeaks}
RoiRegions == {RegionOfInterest(R(5), R(7)), RegionOfInterest(R(6), R(6))}

\* args is <<the peaks of the result, the region>>
InitRoi ==
    /\ args \in {<<peaks, roi>> : peaks \in RoiPeakLists, roi \in RoiRegions}
    /\ op = "init"
    /\ ret = Value(R(0))
    /\ es = <<>>
    /\ counts = <<>>
    /\ chan = <<>>
    /\ sensor = NoSensor
    /\ spa = NoAnalysis
    /\ an = NotRunning

GetRegionOfInterest ==
    /\ op = "init"
    /\ op' = "getRegionOfInterest"
    /\ ret' = getRegionOfInterest(SmoothPeakResult(args[1], NoSpectrum, NoSensor), args[2])
    /\ UNCHANGED <<es, counts, sensor, args, chan, spa, an>>

NextRoi == GetRegionOfInterest

SpecRoi == InitRoi /\ [][NextRoi]_vars

\* the energy of the peak is inside [lower, upper], or no more than 4 widths
\* below lower or above upper
WithinFourWidths(peak, roi) ==
    /\ RLe(RSub(roi.lower, RMul(R(4), peak.width)), peak.energy)
    /\ RLe(peak.energy, RAdd(roi.upper, RMul(R(4), peak.width)))
\* intensity / 2 (erf((upper - e) / (w root2)) - erf((lower - e) / (w root2)))
Contribution(peak, roi) ==
    RMul(RDiv(peak.intensity, R(2)),
         RSub(Erf(RDiv(RSub(roi.upper, peak.energy), peak.width)),
              Erf(RDiv(RSub(roi.lower, peak.energy), peak.width))))

\* C21: getRegionOfInterest adds the contribution of a peak exactly when
\* the energy of the peak is within 4 widths of the region (inside it, or no
\* more than 4 widths below lower or above upper); the intensity returned
\* is the sum of the contributions of these peaks, and of no other.
C21_RoiWithinFourWidths ==
    op = "getRegionOfInterest" =>
        /\ ret.err = ""
        /\ ret.val.intensity =
              RSum([k \in 1..Len(args[1]) |->
                      IF WithinFourWidths(args[1][k], args[2])
                      THEN Contribution(args[1][k], args[2]) ELSE R(0)])

\* a result with a peak exactly 4 widths below the region, which adds to the
\* intensity, and a peak farther above it whose integral over the region is
\* not 0 and is left out
C21_Witness ==
    /\ op = "getRegionOfInterest"
    /\ Len(args[1]) = 2
    /\ RSub(args[2].lower, args[1][1].energy) = RMul(R(4), args[1][1].width)
    /\ ~WithinFourWidths(args[1][2], args[2])
    /\ Contribution(args[1][2], args[2]) # R(0)
    /\ ret.val.intensity = Contribution(args[1][1], args[2])
    /\ RLt(R(0), ret.val.intensity)

(***************************************************************************)
(* SpecMerge: the merge pass of getInitialPeaks (the while loops), one     *)
(* action per pass of a loop.  The candidates are those the scan can       *)
(* leave: ascending channels, positive intensities, energies by            *)
(* findEnergy.  an holds the local variables i, j, p1, e and peaks.        *)
(***************************************************************************)
MaxCandidates == 3
MaxCandChannel == 6

MergeScale == UniformScale(MaxCandChannel + 1, 2)
Candidate(c, intensity) ==
    [Peak(findEnergy(MergeScale, R(c)), R(intensity), R(0), R(0)) EXCEPT !.channel = R(c)]
CandidateLists ==
    {p \in UNION {[1..n -> {Candidate(c, i) : c \in 1..MaxCandChannel, i \in {1, 3}}] :
                      n \in 0..MaxCandidates} :
        \A k \in 1..(Len(p) - 1) : RLt(p[k].channel, p[k + 1].channel)}

\* args is <<potential, lld>>
InitMerge ==
    /\ args \in {<<p, R(lld)>> : p \in CandidateLists, lld \in {0, 5}}
    /\ sensor \in AnalysisSensors
    /\ es = MergeScale
    /\ an = [pc |-> "outer", i |-> 0, j |-> 0, p1 |-> <<>>, e |-> R(0), peaks |-> <<>>]
    /\ op = "getInitialPeaks"
    /\ ret = Value(<<>>)
    /\ counts = <<>>
    /\ chan = <<>>
    /\ spa = NoAnalysis

\* i = i + 1 of the candidate below the lld
SkipIndexStay(i) == i
SkipIndex(i) == i + 1

\* if e0 < lld: i = i + 1; continue
MergeSkip ==
    /\ an.pc = "outer"
    /\ an.i < Len(args[1])
    /\ RLt(PyIndex(args[1], an.i).energy, args[2])
    /\ an' = [an EXCEPT !.i = SkipIndex(an.i)]
    /\ UNCHANGED <<es, counts, sensor, op, args, ret, chan, spa>>

\* p1 = potential[i]; e = e0 + sensor.getResolution(e0) * 2.35; j = i + 1
MergeStart ==
    /\ an.pc = "outer"
    /\ an.i < Len(args[1])
    /\ ~RLt(PyIndex(args[1], an.i).energy, args[2])
    /\ an' = Let(PyIndex(args[1], an.i), LAMBDA p1 :
                 Let(WindowEnd(sensor, p1.energy), LAMBDA e :
                   [an EXCEPT !.pc = "inner", !.p1 = p1, !.e = e,
                              !.j = an.i + 1]))
    /\ UNCHANGED <<es, counts, sensor, op, args, ret, chan, spa>>

\* one pass of the inner while loop
MergeStep ==
    /\ an.pc = "inner"
    /\ an.j < Len(args[1])
    /\ RLt(PyIndex(args[1], an.j).energy, an.e)
    /\ an' = Let(MergeOnce(args[1], an.i, an.p1), LAMBDA merged :
                 Let(WindowEnd(sensor, merged.energy), LAMBDA e :
                   [an EXCEPT !.p1 = merged, !.e = e, !.j = an.j + 1]))
    /\ UNCHANGED <<es, counts, sensor, op, args, ret, chan, spa>>

\* peaks.append(p1); i = j
MergeAppend ==
    /\ an.pc = "inner"
    /\ ~(an.j < Len(args[1]) /\ RLt(PyIndex(args[1], an.j).energy, an.e))
    /\ an' = [an EXCEPT !.pc = "outer", !.peaks = Append(an.peaks, an.p1), !.i = an.j]
    /\ UNCHANGED <<es, counts, sensor, op, args, ret, chan, spa>>

\* return peaks
MergeReturn ==
    /\ an.pc = "outer"
    /\ ~(an.i < Len(args[1]))
    /\ an' = [an EXCEPT !.pc = "done"]
    /\ ret' = Value(an.peaks)
    /\ UNCHANGED <<es, counts, sensor, op, args, chan, spa>>

NextMerge == MergeSkip \/ MergeStart \/ MergeStep \/ MergeAppend \/ MergeReturn

SpecMerge == InitMerge /\ [][NextMerge]_vars

\* the merge pass runs on: no other code is scheduled in getInitialPeaks
SpecMergeFair == SpecMerge /\ WF_vars(NextMerge)

\* the merge of a run as stated: the running candidate p1 combined in turn
\* with each next candidate potential[j] inside the window
RECURSIVE MergedRun(_, _, _, _, _)
MergedRun(potential, s, j, p1, e) ==
    IF j < Len(potential) /\ RLt(PyIndex(potential, j).energy, e)
    THEN LET p2 == PyIndex(potential, j)
             f == RDiv(p1.intensity, RAdd(p1.intensity, p2.intensity))
             g == RSub(R(1), f)
         IN  Let([Peak(RAdd(RMul(f, p1.energy), RMul(g, p2.energy)),
                       RAdd(RMul(f, p1.intensity), RMul(g, p2.intensity)), R(0), R(0))
                     EXCEPT !.channel = RAdd(RMul(f, p1.channel), RMul(g, p2.channel))],
                 LAMBDA merged :
                   MergedRun(potential, s, j + 1, merged, WindowEnd(s, merged.energy)))
    ELSE [p1 |-> p1, j |-> j]

RECURSIVE MergedRuns(_, _, _, _, _)
MergedRuns(potential, s, lld, i, peaks) ==
    IF i >= Len(potential) THEN peaks
    ELSE IF RLt(PyIndex(potential, i).energy, lld)
    THEN MergedRuns(potential, s, lld, i + 1, peaks)
    ELSE Let(MergedRun(potential, s, i + 1, PyIndex(potential, i),
                       WindowEnd(s, PyIndex(potential, i).energy)),
             LAMBDA m : MergedRuns(potential, s, lld, m.j, Append(peaks, m.p1)))

\* C22: in the merge pass, while the next candidate not yet merged lies
\* within 2.35 sigma(current energy) above the current centroid, the running
\* merged candidate is combined with that next candidate, with weight
\* f = I_current / (I_current + I_next) on channel, energy and intensity; a
\* run of k >= 3 close candidates is merged from the data of each of the k
\* candidates once.
C22_MergeRun ==
    an.pc = "done" => ret.val = MergedRuns(args[1], sensor, args[2], 0, <<>>)

(***************************************************************************)
(* SpecPropose: the first two stages of __analyze_spectrum on a spectrum   *)
(* of three channels, with every smoothing computed; the smoothing factor  *)
(* is 0 or gives mu = 20.                                                  *)
(***************************************************************************)
ProposeChannels == 3
MaxProposeCount == 2

ProposeCounts == [1..ProposeChannels -> {R(c) : c \in 0..MaxProposeCount}]
ProposeAnalyses ==
    {[startEnergy |-> R(0), endEnergy |-> R(3000), smoothingFactor |-> f] :
        f \in {R(0), Rat(20 * ProposeChannels, ProposeChannels + 1)}}

InitPropose ==
    /\ es = UniformScale(ProposeChannels, 1)
    /\ counts \in ProposeCounts
    /\ sensor \in AnalysisSensors
    /\ spa \in ProposeAnalyses
    /\ an = Idle("start")
    /\ op = "analyze"
    /\ args = <<>>
    /\ ret = Value(R(0))
    /\ chan = <<>>

\* mu and computeBaseline (lines 421-429)
ComputeBaselineOfCounts ==
    /\ an.pc = "start"
    /\ LET mu == RDiv(RMul(spa.smoothingFactor, R(Len(es))),
                      RSub(PyIndex(es, -1), PyIndex(es, 0)))
       IN  an' = Let(computeBaseline(counts, mu), LAMBDA r :
                       [an EXCEPT !.pc = "baseline", !.mu = mu,
                                  !.baseline0 = r[1], !.y = r[2]])
    /\ UNCHANGED <<es, counts, sensor, op, args, ret, chan, spa>>

NextPropose == ComputeBaselineOfCounts \/ GetInitialPeaks

SpecPropose == InitPropose /\ [][NextPropose]_vars

\* C23: in analyze the derivative scan runs on u - b0, where u is the
\* lightly smoothed spectrum computeBaseline returned: the raw counts
\* smoothed once with 0.05 mu, with no further smoothing before the scan.
C23_ScanOnceSmoothed ==
    an.pc \in {"proposed", "raised"} =>
        /\ an.y = smooth(counts, Const(RMul(an.mu, Twentieth))).val
        /\ an.pc = "proposed" => an.scanned = an.y

(***************************************************************************)
(* SpecScan: the derivative scan of getInitialPeaks (the for loop), one    *)
(* action per pass.  args is <<u, b>>: the local u after its smoothing     *)
(* and the baseline, drawn from whole heights; an holds the locals i,      *)
(* current, prev, rising and potential.                                    *)
(***************************************************************************)
ScanChannels == 4
MaxHeight == 3

ScanScale == UniformScale(ScanChannels, 1)
ScanHeights == [1..ScanChannels -> {R(c) : c \in 0..MaxHeight}]
\* baselines: 0, or above every height, channel by channel
ScanBaselines == [1..ScanChannels -> {R(0), R(MaxHeight + 1)}]

InitScan ==
    /\ args \in {<<u, b>> : u \in ScanHeights, b \in ScanBaselines}
    /\ es = ScanScale
    /\ an = [pc |-> "scan", i |-> 0, current |-> RSub(args[1][1], args[2][1]),
             prev |-> RSub(args[1][1], args[2][1]), rising |-> FALSE, potential |-> <<>>]
    /\ op = "getInitialPeaks"
    /\ ret = Value(<<>>)
    /\ sensor = NoSensor
    /\ counts = <<>>
    /\ chan = <<>>
    /\ spa = NoAnalysis

\* one pass of the for loop; findEnergy raises ValueError on a channel
\* that is not a number
ScanPass ==
    /\ an.pc = "scan"
    /\ an.i < Len(args[1])
    /\ LET r == ScanBody(args[1], args[2], es, an.i, an.current, an.prev, an.rising,
                         an.potential)
       IN  IF r.err # ""
           THEN /\ an' = [an EXCEPT !.pc = "raised", !.rising = r.rising]
                /\ ret' = Raise(r.err)
           ELSE /\ an' = [an EXCEPT !.i = an.i + 1, !.current = r.current,
                                    !.prev = r.prev, !.rising = r.rising,
                                    !.potential = r.potential]
                /\ ret' = ret
    /\ UNCHANGED <<es, counts, sensor, op, args, chan, spa>>

\* the end of the for loop: the candidates go to the merge pass
ScanEnd ==
    /\ an.pc = "scan"
    /\ an.i >= Len(args[1])
    /\ an' = [an EXCEPT !.pc = "scanned"]
    /\ ret' = Value(an.potential)
    /\ UNCHANGED <<es, counts, sensor, op, args, chan, spa>>

NextScan == ScanPass \/ ScanEnd

SpecScan == InitScan /\ [][NextScan]_vars

\* the residual u - b at channel k (0-based)
Residual(k) == RSub(args[1][k + 1], args[2][k + 1])
\* before channel i the residual has risen and not fallen since: its last
\* step that was not flat was a rise
RisenBefore(i) ==
    \E m \in 1..(i - 1) :
        /\ RLt(Residual(m - 1), Residual(m))
        /\ \A k \in (m + 1)..(i - 1) : Residual(k) = Residual(k - 1)
\* (u - b) / sqrt(max(b, 1)) > 1 at channel k
GatePasses(k) ==
    /\ RLt(R(0), Residual(k))
    /\ RLt(RMax(args[2][k + 1], R(1)), RMul(Residual(k), Residual(k)))
\* the pass at hand proposes a candidate
Proposes == Len(an'.potential) > Len(an.potential)
InPass == an.pc = "scan" /\ an.i < Len(args[1])

\* C24: in the scan of u - b a candidate is proposed only at a channel
\* where the residual changes from rising to falling (it has risen, and not
\* fallen since, and falls now) and only if the significance gate passes
\* there; after a maximum, gated or not, no candidate is proposed until the
\* residual has risen again; a flat step never changes the rising state.
C24_ScanProposals ==
    [][InPass =>
          /\ Proposes =>
                /\ an.i >= 2
                /\ RisenBefore(an.i)
                /\ RLt(Residual(an.i), Residual(an.i - 1))
                /\ GatePasses(an.i - 1)
          /\ an.rising = RisenBefore(an.i)
          /\ (an.i >= 1 /\ Residual(an.i) = Residual(an.i - 1)) =>
                an'.rising = an.rising]_vars

\* a scan over a plateau: the residual rises, stays and falls, and the one
\* candidate is proposed at the plateau's last channel
C24_Witness ==
    /\ an.pc = "scanned"
    /\ RLt(Residual(0), Residual(1))
    /\ Residual(1) = Residual(2)
    /\ RLt(Residual(3), Residual(2))
    /\ Len(an.potential) = 1
    /\ RLe(R(1), an.potential[1].channel)

\* C28: whenever the scan tags a maximum at loop index i, i >= 2, so the
\* channel i - 1 of the candidate and of b[i - 1] in the gate is a channel
\* in 1..N-1 (the index never wraps to the last channel); the offset f of
\* a gated maximum is finite with -0.5 <= f <= 0.5, so the candidate's
\* channel lies in [i - 1.5, i - 0.5].
C28_TagIndexAndOffset ==
    [][(InPass /\ an.i >= 1 /\ an.rising
          /\ RLt(Residual(an.i), Residual(an.i - 1))) =>
          /\ an.i >= 2
          /\ an.i - 1 \in 1..(Len(args[1]) - 1)
          /\ GatePasses(an.i - 1) =>
                /\ an'.pc = "scan"
                /\ Proposes
                /\ LET channel == an'.potential[Len(an'.potential)].channel
                   IN  /\ RLe(RSub(R(an.i), Rat(3, 2)), channel)
                       /\ RLe(channel, RSub(R(an.i), Half))]_vars

\* the candidates of the list that are not below the lower level discriminator
AtOrAboveLld == {k \in 1..Len(args[1]) : ~RLt(args[1][k].energy, args[2])}

\* one step of the merge pass moves its index forward: the outer index over
\* an outer iteration (a skip, or a window from its start to its append) and
\* the inner pointer over an inner iteration
IndexAdvances ==
    /\ (an.pc = "outer" /\ an'.pc = "outer") => an'.i > an.i
    /\ (an.pc = "outer" /\ an'.pc = "inner") => an'.i = an.i /\ an'.j > an.i
    /\ (an.pc = "inner" /\ an'.pc = "inner") => an'.i = an.i /\ an'.j > an.j
    /\ (an.pc = "inner" /\ an'.pc = "outer") => an'.i = an.j /\ an'.i > an.i

\* a candidate below the discriminator at the start of a window is dropped
DropsBelowLld ==
    (an.pc = "outer" /\ an.i < Len(args[1])
        /\ RLt(PyIndex(args[1], an.i).energy, args[2])) =>
        an'.pc = "outer" /\ an'.peaks = an.peaks

\* C29: the merge pass of getInitialPeaks terminates: the outer index grows on
\* every outer iteration and the inner pointer on every inner iteration, a
\* candidate below the LLD at the start of a window is dropped, and no more
\* peaks are returned than there are candidates at or above the LLD
C29_MergeTerminates ==
    /\ [][IndexAdvances /\ DropsBelowLld]_vars
    /\ <>(an.pc = "done")
    /\ [](an.pc = "done" =>
            /\ ret.err = ""
            /\ Len(ret.val) <= Cardinality(AtOrAboveLld))

C29_Witness ==
    /\ an.pc = "done"
    /\ Len(args[1]) = MaxCandidates
    /\ Cardinality(AtOrAboveLld) = 2
    /\ Len(ret.val) = 1

(***************************************************************************)
(* combineNeighborPeaks on its own: lists of responsed peaks with the      *)
(* non-negative amplitudes solve() attaches, whole triples and lists whose *)
(* length is no multiple of three.                                         *)
(***************************************************************************)
MaxTriplePeaks == 6
MaxAmplitude == 2
TripleCentres == {2, 5}
CombineScale == UniformScale(7, 1)

\* a peak of amplitude a whose response is all in the channel of its energy
TriplePeak(e, a) ==
    [Peak(R(e), R(a), R(0), R(1)) EXCEPT
        !.response = [b \in 1..NBins(CombineScale) |->
                         IF b = e + 1 THEN R(1) ELSE R(0)]]

TripleLists ==
    UNION {{[k \in 1..n |-> TriplePeak(c[((k - 1) \div 3) + 1] + ((k - 1) % 3) - 1, a[k])] :
              c \in [1..((MaxTriplePeaks + 2) \div 3) -> TripleCentres],
              a \in [1..n -> 0..MaxAmplitude]} : n \in 0..MaxTriplePeaks}

InitCombine ==
    /\ args \in {<<peaks>> : peaks \in TripleLists}
    /\ op = "init"
    /\ ret = Value(R(0))
    /\ es = CombineScale
    /\ counts = <<>>
    /\ chan = <<>>
    /\ sensor = NoSensor
    /\ spa = NoAnalysis
    /\ an = NotRunning

CombineNeighborPeaks ==
    /\ op = "init"
    /\ op' = "combineNeighborPeaks"
    /\ ret' = combineNeighborPeaks(args[1], es)
    /\ UNCHANGED <<es, counts, sensor, args, chan, spa, an>>

NextCombine == CombineNeighborPeaks

SpecCombine == InitCombine /\ [][NextCombine]_vars

\* the g-th consecutive group of three input peaks
TripleOf(g) == SubSeq(args[1], 3 * g - 2, 3 * g)
TotalAmplitude(g) ==
    RAdd(TripleOf(g)[1].intensity,
         RAdd(TripleOf(g)[2].intensity, TripleOf(g)[3].intensity))
WeightedEnergySum(g) ==
    RAdd(RMul(TripleOf(g)[1].intensity, TripleOf(g)[1].energy),
         RAdd(RMul(TripleOf(g)[2].intensity, TripleOf(g)[2].energy),
              RMul(TripleOf(g)[3].intensity, TripleOf(g)[3].energy)))
HasAmplitude(g) == RLt(R(0), TotalAmplitude(g))
\* the groups with I > 0, in group order
KeptGroups == SelectSeq([g \in 1..(Len(args[1]) \div 3) |-> g], HasAmplitude)

\* C25: combineNeighborPeaks emits, in group order, exactly one peak for each
\* consecutive group of three input peaks whose total amplitude I is > 0, with
\* intensity I and energy sum(a_i e_i) / I, which lies between the smallest and
\* the largest energy of the group; it emits at most len(input) / 3 peaks
C25_OnePeakPerGroup ==
    (op = "combineNeighborPeaks" /\ ret.err = "") =>
        /\ Len(ret.val) = Len(KeptGroups)
        /\ 3 * Len(ret.val) <= Len(args[1])
        /\ \A k \in 1..Len(KeptGroups) :
              /\ k <= Len(ret.val)
              /\ ret.val[k].intensity = TotalAmplitude(KeptGroups[k])
              /\ ret.val[k].energy =
                     RDiv(WeightedEnergySum(KeptGroups[k]), TotalAmplitude(KeptGroups[k]))
              /\ \E m \in 1..3 : RLe(TripleOf(KeptGroups[k])[m].energy, ret.val[k].energy)
              /\ \E m \in 1..3 : RLe(ret.val[k].energy, TripleOf(KeptGroups[k])[m].energy)

\* two whole groups with amplitude, the second with a mean off its centre
C25_Witness ==
    /\ op = "combineNeighborPeaks"
    /\ ret.err = ""
    /\ Len(args[1]) = 6
    /\ Len(ret.val) = 2
    /\ ret.val[2].energy # TripleOf(2)[2].energy

(***************************************************************************)
(* defineRegions (_roi.py), one pass of its while loop at a time.  The     *)
(* second region of a pass is mean +- max(3 std, resolution min_width / 2) *)
(* with std the root of a variance: the region is kept by its mean, its    *)
(* variance and its least half width, and membership is decided on the     *)
(* squares, so that no root is rounded.                                    *)
(***************************************************************************)
DefaultLower == 40
DefaultUpper == 6000

\* pk.intensity / np.sqrt(pk.baseline) < snr, for snr >= 0: a division by
\* zero is inf, -inf or nan and the root of a negative baseline is nan
SnrBelow(pk, snr) ==
    IF RLt(R(0), pk.baseline)
    THEN \/ RLt(pk.intensity, R(0))
         \/ RLt(RMul(pk.intensity, pk.intensity), RMul(RMul(snr, snr), pk.baseline))
    ELSE pk.baseline = R(0) /\ RLt(pk.intensity, R(0))

RECURSIVE AllPeaks(_)
AllPeaks(peakresults) ==
    IF peakresults = <<>> THEN <<>>
    ELSE Head(peakresults).peaks \o AllPeaks(Tail(peakresults))

filterPeakResults(peakresults, lower, upper, snr) ==
    SortSeq(SelectSeq(AllPeaks(peakresults),
                      LAMBDA pk : /\ ~RLt(pk.energy, lower)
                                  /\ ~RLt(upper, pk.energy)
                                  /\ ~SnrBelow(pk, snr)),
            LAMBDA p, q : RLt(p.energy, q.energy))

\* scales = [int(4 * n * fraction), int(2 * n * fraction), int(n * fraction)]
SearchScales(n, fraction) ==
    <<RInt(RMul(R(4 * n), fraction)), RInt(RMul(R(2 * n), fraction)),
      RInt(RMul(R(n), fraction))>>

\* np.argmin: the first index (0-based) of the least value
ArgMin(x) ==
    (CHOOSE k \in 1..Len(x) :
        /\ \A m \in 1..Len(x) : RLe(x[k], x[m])
        /\ \A m \in 1..(k - 1) : RLt(x[k], x[m])) - 1

\* v >= self.lower and v < self.upper
Contains(roi, v) == RLe(roi.lower, v) /\ RLt(v, roi.upper)

Squared(x) == RMul(x, x)
Mean(x) == Let(RSum(x), LAMBDA total : RDiv(total, R(Len(x))))
Variance(x) ==
    Let(Mean(x), LAMBDA mean :
      Let([k \in 1..Len(x) |-> Let(RSub(x[k], mean), LAMBDA d : Squared(d))],
          LAMBDA squares : Mean(squares)))

\* RegionOfInterest(mean - width, mean + width), width = max(3 std, least)
SpreadRegion(mean, variance, least) ==
    [mean |-> mean, variance |-> variance, least |-> least]

\* the mean of no energies is nan: RegionOfInterest(nan, nan)
NanRegion == [mean |-> <<0, 0>>, variance |-> <<0, 0>>, least |-> R(0)]

\* p.energy in roi, for the second region of a pass
InSpread(v, roi) ==
    IF roi = NanRegion THEN FALSE
    ELSE Let(RSub(v, roi.mean), LAMBDA d :
           Let(<<Squared(d), RMul(R(9), roi.variance)>>, LAMBDA q :
             IF RLt(d, R(0))
             THEN RLe(q[1], q[2]) \/ RLe(RNeg(d), roi.least)
             ELSE RLt(q[1], q[2]) \/ RLt(d, roi.least)))

\* if len(regions) == limit: break
AtLimit(regions, limit) == Len(regions) = limit

\* one pass of the while loop for a scale >= 1: whether it breaks, and the
\* peaks and regions it leaves
RegionBody(peaks, regions, scale, s, limit, min_width) ==
    Let([k \in 1..Len(peaks) |-> peaks[k].energy], LAMBDA u :
      Let(<<[k \in 1..(Len(u) - scale) |-> RSub(u[k + scale], u[k])],
            [k \in 1..(Len(u) - scale) |-> RDiv(RAdd(u[k + scale], u[k]), R(2))]>>,
          LAMBDA u12 :
            Let(ArgMin(u12[1]), LAMBDA ix :
              Let(Sigma(s, PyIndex(u12[2], ix)), LAMBDA resolution :
              Let(RDiv(resolution, R(2)), LAMBDA half :
                IF RLt(half, PyIndex(u12[1], ix))
                THEN [brk |-> TRUE, peaks |-> peaks, regions |-> regions]
                ELSE Let(RegionOfInterest(RSub(PyIndex(u12[2], ix), half),
                                          RAdd(PyIndex(u12[2], ix), half)),
                         LAMBDA first :
                           Let(SelectSeq(u, LAMBDA v : Contains(first, v)), LAMBDA p3 :
                             Let(IF p3 = <<>> THEN NanRegion
                                 ELSE SpreadRegion(Mean(p3), Variance(p3),
                                          RMul(half, R(min_width))),
                                 LAMBDA roi :
                                   Let(Append(regions, roi), LAMBDA grown :
                                     [brk |-> AtLimit(grown, limit),
                                      peaks |-> SelectSeq(peaks,
                                                  LAMBDA p : ~InSpread(p.energy, roi)),
                                      regions |-> grown])))))))))

MaxRegionPeaks == 5
MaxLimit == 2
\* a run that puts out this many regions has stopped removing peaks
MaxRegions == MaxRegionPeaks + MaxLimit + 1
RegionSensor == GaussianSensorModel(RMul(FwhmPerSigma, Rat(2, 10)), R(10), FwhmPerSigma, R(1))

\* peaks of two close lines and one far line, a weak peak and one below the
\* lower energy limit of filterPeakResults
RegionPeaks ==
    <<Peak(R(30), R(5), R(1), R(1)), Peak(R(60), R(5), R(1), R(1)),
      Peak(R(62), R(5), R(1), R(1)), Peak(R(62), R(1), R(1), R(1)),
      Peak(R(120), R(5), R(1), R(1))>>
\* the lists in ascending order of energy and the same lists reversed
RegionPeakLists ==
    UNION {UNION {{[k \in 1..n |-> RegionPeaks[f[k]]],
                   [k \in 1..n |-> RegionPeaks[f[n + 1 - k]]]} :
                     f \in {g \in [1..n -> 1..Len(RegionPeaks)] :
                               \A k \in 1..(n - 1) : g[k] <= g[k + 1]}} :
             n \in 0..MaxRegionPeaks}

\* defineRegions(peakresults, sensor, limit, fraction, min_width, snr=5)
InitRegions ==
    /\ args \in {<<(<<SmoothPeakResult(peaks, NoSpectrum, NoSensor)>>), limit, fraction, min_width>> :
                    peaks \in RegionPeakLists, limit \in 1..MaxLimit,
                    fraction \in {Twentieth, Rat(1, 4)}, min_width \in {0, 1}}
    /\ sensor = RegionSensor
    /\ op = "defineRegions"
    /\ an = [pc |-> "filter", k |-> 1, scales |-> <<>>, peaks |-> <<>>, regions |-> <<>>]
    /\ ret = Value(<<>>)
    /\ es = <<>>
    /\ counts = <<>>
    /\ chan = <<>>
    /\ spa = NoAnalysis

\* peaks = filterPeakResults(...); n = len(peaks); scales = [...]
FilterPeaks ==
    /\ an.pc = "filter"
    /\ an' = Let(filterPeakResults(args[1], R(DefaultLower), R(DefaultUpper), R(5)),
                 LAMBDA peaks :
                   [an EXCEPT !.pc = "scale", !.peaks = peaks,
                              !.scales = SearchScales(Len(peaks), args[3])])
    /\ UNCHANGED <<es, counts, sensor, op, args, ret, chan, spa>>

\* the while test fails: the for loop goes to the next scale
LeaveScale ==
    /\ an.pc = "scale"
    /\ an.k <= 3
    /\ ~(Len(an.peaks) > an.scales[an.k])
    /\ an' = [an EXCEPT !.k = an.k + 1]
    /\ UNCHANGED <<es, counts, sensor, op, args, ret, chan, spa>>

\* a pass at scale 0: u[scale:] - u[0:-scale] is u - u[0:0]; the shapes (n,)
\* and (0,) do not broadcast for n >= 2, and for n = 1 the difference is empty
\* and np.argmin raises
ScaleZeroPass ==
    /\ an.pc = "scale"
    /\ an.k <= 3
    /\ Len(an.peaks) > an.scales[an.k]
    /\ an.scales[an.k] = 0
    /\ an' = [an EXCEPT !.pc = "raised"]
    /\ ret' = Raise("ValueError")
    /\ UNCHANGED <<es, counts, sensor, op, args, chan, spa>>

\* one pass of the while loop
RegionPass ==
    /\ an.pc = "scale"
    /\ an.k <= 3
    /\ Len(an.peaks) > an.scales[an.k]
    /\ an.scales[an.k] > 0
    /\ Len(an.regions) < MaxRegions
    /\ an' = Let(RegionBody(an.peaks, an.regions, an.scales[an.k], sensor,
                            args[2], args[4]),
                 LAMBDA r :
                   [an EXCEPT !.k = IF r.brk THEN an.k + 1 ELSE an.k,
                              !.peaks = r.peaks, !.regions = r.regions])
    /\ UNCHANGED <<es, counts, sensor, op, args, ret, chan, spa>>

\* return regions
ReturnRegions ==
    /\ an.pc = "scale"
    /\ an.k > 3
    /\ an' = [an EXCEPT !.pc = "done"]
    /\ ret' = Value(an.regions)
    /\ UNCHANGED <<es, counts, sensor, op, args, chan, spa>>

NextRegions == FilterPeaks \/ LeaveScale \/ ScaleZeroPass \/ RegionPass \/ ReturnRegions

SpecRegions == InitRegions /\ [][NextRegions]_vars

\* defineRegions runs on to its return
SpecRegionsFair == SpecRegions /\ WF_vars(NextRegions)

\* C26: defineRegions returns at most limit regions
C26_AtMostLimit ==
    (op = "defineRegions" /\ an.pc = "done") => Len(ret.val) <= args[2]

\* a pass of the while loop that puts out a region and does not break
PassStays == an.pc = "scale" /\ an'.pc = "scale" /\ an'.k = an.k /\ an'.regions # an.regions

\* C30: defineRegions terminates: every pass of its while loop that does not
\* break out removes at least one peak from the working list, for min_width 0
\* and for search scale 0 as well
C30_RegionsTerminate ==
    /\ [][PassStays => Len(an'.peaks) < Len(an.peaks)]_vars
    /\ <>(an.pc \in {"done", "raised"})

(***************************************************************************)
(* TrainProcessor.getInputs for one nuclide, called again and again with   *)
(* the flags skip and save of the sample generator input.  The file of the *)
(* saved inputs is an.file; the samples drawn (draw_spectrum, a Poisson    *)
(* draw) are any counts of DrawnCounts.                                    *)
(***************************************************************************)
MaxTemplates == 2
MaxCacheCalls == 2
MaxDrawn == 1

Template(spectrum, label) == [spectrum |-> spectrum, label |-> label]

TemplateSpectra ==
    {Spectrum(<<R(1)>>, UniformScale(1, 1), R(1), lt, None, None, None) : lt \in {R(1), R(0)}}
TemplateLabels == {Label(<<(<<"a">>)>>, R(0), R(0)), Label(<<(<<"b">>)>>, Rat(1, 2), R(1))}
TemplateLists ==
    UNION {[1..n -> {Template(sp, lb) : sp \in TemplateSpectra, lb \in TemplateLabels}] :
              n \in 1..MaxTemplates}
DrawnCounts == {<<R(c)>> : c \in 0..MaxDrawn}

\* SampleGenerator.getInputs with samples = None and no background: one input
\* per template, the template's spectrum with the counts drawn and its label
SampleInputs(templates, drawn) ==
    [k \in 1..Len(templates) |->
        LabelledInput([templates[k].spectrum EXCEPT !.counts = drawn[k]],
                      templates[k].label)]

InitCache ==
    /\ args \in {<<templates, present>> : templates \in TemplateLists, present \in BOOLEAN}
    /\ an = [file |-> NoDocument, exists |-> FALSE, saved |-> <<>>, drew |-> FALSE,
             calls |-> 0, skip |-> FALSE, save |-> FALSE]
    /\ op = "init"
    /\ ret = Value(<<>>)
    /\ es = <<>>
    /\ counts = <<>>
    /\ chan = <<>>
    /\ sensor = NoSensor
    /\ spa = NoAnalysis

\* getInputs with sg_input.skip: the saved file is read, or RuntimeError
GetInputsSkip ==
    /\ an.calls < MaxCacheCalls
    /\ op' = "getInputs"
    /\ \E save \in BOOLEAN :
          an' = [an EXCEPT !.calls = an.calls + 1, !.skip = TRUE, !.save = save,
                           !.drew = FALSE]
    /\ ret' = IF an.exists THEN loadXml(an.file) ELSE Raise("RuntimeError")
    /\ UNCHANGED <<es, counts, sensor, args, chan, spa>>

\* getInputs without skip: the templates are read and sampled, and the inputs
\* written when sg_input.save
GetInputsSample ==
    /\ an.calls < MaxCacheCalls
    /\ op' = "getInputs"
    /\ \E save \in BOOLEAN :
          IF ~args[2]
          THEN /\ ret' = Raise("RuntimeError")
               /\ an' = [an EXCEPT !.calls = an.calls + 1, !.skip = FALSE,
                                   !.save = save, !.drew = FALSE]
          ELSE \E drawn \in [1..Len(args[1]) -> DrawnCounts] :
                 \E id_inputs \in {SampleInputs(args[1], drawn)} :
                    /\ ret' = Value(id_inputs)
                    /\ an' = IF save
                             THEN [an EXCEPT !.calls = an.calls + 1, !.skip = FALSE,
                                             !.save = TRUE, !.drew = TRUE,
                                             !.file = IdentificationInputListToXml(id_inputs),
                                             !.exists = TRUE, !.saved = id_inputs]
                             ELSE [an EXCEPT !.calls = an.calls + 1, !.skip = FALSE,
                                             !.save = FALSE, !.drew = TRUE]
    /\ UNCHANGED <<es, counts, sensor, args, chan, spa>>

NextCache == GetInputsSkip \/ GetInputsSample

SpecCache == InitCache /\ [][NextCache]_vars

\* C27: after getInputs has run with skip = False and save = True, getInputs
\* with skip = True does not raise, draws no samples and returns as many
\* inputs as were saved, each with the saved sample spectrum and label; with
\* skip = True and no saved file it raises RuntimeError
C27_CacheRoundTrip ==
    (op = "getInputs" /\ an.skip) =>
        IF an.exists
        THEN /\ ret.err = ""
             /\ ~an.drew
             /\ Len(ret.val) = Len(an.saved)
             /\ \A k \in 1..Len(an.saved) :
                   /\ k <= Len(ret.val)
                   /\ ret.val[k].sample = an.saved[k].sample
                   /\ ret.val[k].label = an.saved[k].label
        ELSE ret.err = "RuntimeError"


====
